---------------------------- MODULE Spec2Model ----------------------------
(***************************************************************************)
(* Model of the Converter sample of firebase/snippets-cpp                  *)
(* (blogs/sept-2021/converter.h): the conversion between firebase::Variant *)
(* values and firebase::firestore::FieldValue values.                      *)
(*                                                                         *)
(* A Variant is a record with a "type" field holding the Variant::Type    *)
(* enumerator and one payload field named after the accessor that reads    *)
(* it (bool_value, int64_value, double_value, string_value, blob_data,     *)
(* vector, map).  A FieldValue is a record with a "type" field holding the *)
(* FieldValue::Type enumerator and a payload field named after its         *)
(* accessor.  A std::vector is a sequence; a std::map is a function from   *)
(* its keys to its values.  Doubles are opaque tokens written as strings   *)
(* ("43.0"): the converter only moves them.  Integers are int64 payloads   *)
(* that the converter only moves as well.                                  *)
(*                                                                         *)
(* assert(false)/std::terminate() and a failed assert() end the process:   *)
(* a conversion that reaches one yields Aborted, and every caller of a     *)
(* conversion that yields Aborted yields Aborted too (no frame returns).   *)
(***************************************************************************)
EXTENDS Integers, Sequences, FiniteSets, TLC

\* Longest std::vector / array drawn as an input.
MaxLen == 2
\* Most conversions one behaviour chains (original, converted, round trip, ...).
MaxCalls == 3

(***************************************************************************)
(* firebase::Variant values                                                *)
(***************************************************************************)
VariantNull == [type |-> "kTypeNull"]
VariantBool(b) == [type |-> "kTypeBool", bool_value |-> b]
VariantInt64(i) == [type |-> "kTypeInt64", int64_value |-> i]
VariantDouble(d) == [type |-> "kTypeDouble", double_value |-> d]
VariantStaticString(s) == [type |-> "kTypeStaticString", string_value |-> s]
VariantMutableString(s) == [type |-> "kTypeMutableString", string_value |-> s]
VariantStaticBlob(bytes) == [type |-> "kTypeStaticBlob", blob_data |-> bytes]
VariantMutableBlob(bytes) == [type |-> "kTypeMutableBlob", blob_data |-> bytes]
VariantVector(vec) == [type |-> "kTypeVector", vector |-> vec]
VariantMap(m) == [type |-> "kTypeMap", map |-> m]

is_bool(v) == v.type = "kTypeBool"
is_int64(v) == v.type = "kTypeInt64"
is_double(v) == v.type = "kTypeDouble"
is_string(v) == v.type \in {"kTypeStaticString", "kTypeMutableString"}

(***************************************************************************)
(* firebase::firestore::FieldValue values                                  *)
(***************************************************************************)
\* A default-constructed FieldValue ("return {}"): it holds no value, and its
\* type() answers the first enumerator, kNull.
FieldValueDefault == [type |-> "kNull", is_valid |-> FALSE]
FieldValueNull == [type |-> "kNull"]
FieldValueBoolean(b) == [type |-> "kBoolean", boolean_value |-> b]
FieldValueInteger(i) == [type |-> "kInteger", integer_value |-> i]
FieldValueDouble(d) == [type |-> "kDouble", double_value |-> d]
FieldValueString(s) == [type |-> "kString", string_value |-> s]
FieldValueBlob(bytes) == [type |-> "kBlob", blob_value |-> bytes]
FieldValueArray(arr) == [type |-> "kArray", array_value |-> arr]
FieldValueMap(m) == [type |-> "kMap", map_value |-> m]
Timestamp(seconds, nanoseconds) == [seconds |-> seconds, nanoseconds |-> nanoseconds]
GeoPoint(latitude, longitude) == [latitude |-> latitude, longitude |-> longitude]
FieldValueTimestamp(ts) == [type |-> "kTimestamp", timestamp_value |-> ts]
FieldValueGeoPoint(gp) == [type |-> "kGeoPoint", geo_point_value |-> gp]
FieldValueReference(ref) == [type |-> "kReference", reference_value |-> ref]
FieldValueDelete == [type |-> "kDelete"]
FieldValueServerTimestamp == [type |-> "kServerTimestamp"]
\* The merge-only operations: their operands cannot be read back.
FieldValueArrayUnion == [type |-> "kArrayUnion"]
FieldValueArrayRemove == [type |-> "kArrayRemove"]
FieldValueIncrementInteger == [type |-> "kIncrementInteger"]
FieldValueIncrementDouble == [type |-> "kIncrementDouble"]

\* firestore_->Document(path): the reference to the document at path in the
\* Firestore instance the Converter was built with.
Document(path) == [path |-> path]

\* The outcome of a conversion that reached assert(false)/std::terminate().
Aborted == [type |-> "aborted"]


(***************************************************************************)
(* Helpers reading one entry of a map: the default-constructed value when  *)
(* the key is absent or its value has another type.                        *)
(***************************************************************************)
\* std::map<Variant, Variant>::find(Variant(key)): Variant's ordering compares a
\* static and a mutable string by their characters, so the entry found is the
\* one whose key is a string with these characters (none or one).
VariantFind(from, key) == {k \in DOMAIN from : is_string(k) /\ k.string_value = key}

\* TryGetBoolean that takes a value that is no boolean for true.
TryGetBoolean_AnyValue(from, key) ==
  LET it == VariantFind(from, key)
  IN IF it = {}
       THEN FALSE
       ELSE IF ~is_bool(from[CHOOSE k \in it : TRUE])
         THEN TRUE
         ELSE from[CHOOSE k \in it : TRUE].bool_value

TryGetBoolean(from, key) ==
  LET it == VariantFind(from, key)
  IN IF it = {} \/ ~is_bool(from[CHOOSE k \in it : TRUE])
       THEN FALSE
       ELSE from[CHOOSE k \in it : TRUE].bool_value

\* TryGetInteger with -1 for an entry that is absent or no integer.
TryGetInteger_DefaultMinusOne(from, key) ==
  LET it == VariantFind(from, key)
  IN IF it = {} \/ ~is_int64(from[CHOOSE k \in it : TRUE])
       THEN -1
       ELSE from[CHOOSE k \in it : TRUE].int64_value

TryGetInteger(from, key) ==
  LET it == VariantFind(from, key)
  IN IF it = {} \/ ~is_int64(from[CHOOSE k \in it : TRUE])
       THEN 0
       ELSE from[CHOOSE k \in it : TRUE].int64_value

\* TryGetDouble that gives 0.0 for every entry.
TryGetDouble_AlwaysZero(from, key) == "0.0"

TryGetDouble(from, key) ==
  LET it == VariantFind(from, key)
  IN IF it = {} \/ ~is_double(from[CHOOSE k \in it : TRUE])
       THEN "0.0"
       ELSE from[CHOOSE k \in it : TRUE].double_value

TryGetString(from, key) ==
  LET it == VariantFind(from, key)
  IN IF it = {} \/ ~is_string(from[CHOOSE k \in it : TRUE])
       THEN ""
       ELSE from[CHOOSE k \in it : TRUE].string_value

TryGetBooleanFieldValue(from, key) ==
  IF key \notin DOMAIN from \/ from[key].type # "kBoolean"
    THEN FALSE
    ELSE from[key].boolean_value

TryGetStringFieldValue(from, key) ==
  IF key \notin DOMAIN from \/ from[key].type # "kString"
    THEN ""
    ELSE from[key].string_value

\* TryGetArray that finds no array.
TryGetArray_AlwaysEmpty(from, key) == <<>>

TryGetArray(from, key) ==
  IF key \notin DOMAIN from \/ from[key].type # "kArray"
    THEN <<>>
    ELSE from[key].array_value

(***************************************************************************)
(* Variant -> FieldValue                                                   *)
(***************************************************************************)
RECURSIVE ConvertAny(_, _)
RECURSIVE ConvertArray(_, _)
RECURSIVE ConvertRegularArray(_)
RECURSIVE ConvertMap(_)
RECURSIVE ConvertRegularMap(_)
RECURSIVE ConvertVariantToFieldValue(_)
RECURSIVE ConvertFieldValueToVariant(_)
RECURSIVE ConvertArrayFieldValue(_)
RECURSIVE ConvertMapFieldValue(_)
RECURSIVE ConvertRegularMapFieldValue(_)
RECURSIVE ConvertSpecialValueFieldValue(_)

ConvertVariantToFieldValue(from) == ConvertAny(from, FALSE)

\* ConvertAny without its case for kTypeMutableBlob.
ConvertAny_NoMutableBlob(from, within_array) ==
  CASE from.type = "kTypeNull" -> FieldValueNull
    [] from.type = "kTypeBool" -> FieldValueBoolean(from.bool_value)
    [] from.type = "kTypeInt64" -> FieldValueInteger(from.int64_value)
    [] from.type = "kTypeDouble" -> FieldValueDouble(from.double_value)
    [] from.type \in {"kTypeStaticString", "kTypeMutableString"} ->
         FieldValueString(from.string_value)
    [] from.type = "kTypeStaticBlob" -> FieldValueBlob(from.blob_data)
    [] from.type = "kTypeVector" -> ConvertArray(from.vector, within_array)
    [] from.type = "kTypeMap" -> ConvertMap(from.map)
    [] OTHER -> Aborted

ConvertAny(from, within_array) ==
  CASE from.type = "kTypeNull" -> FieldValueNull
    [] from.type = "kTypeBool" -> FieldValueBoolean(from.bool_value)
    [] from.type = "kTypeInt64" -> FieldValueInteger(from.int64_value)
    [] from.type = "kTypeDouble" -> FieldValueDouble(from.double_value)
    [] from.type \in {"kTypeStaticString", "kTypeMutableString"} ->
         FieldValueString(from.string_value)
    [] from.type \in {"kTypeStaticBlob", "kTypeMutableBlob"} ->
         FieldValueBlob(from.blob_data)
    [] from.type = "kTypeVector" -> ConvertArray(from.vector, within_array)
    [] from.type = "kTypeMap" -> ConvertMap(from.map)
    [] OTHER -> Aborted

\* ConvertArray that never wraps a nested array.
ConvertArray_NeverWraps(from, within_array) == ConvertRegularArray(from)

ConvertArray(from, within_array) ==
  IF ~within_array
    THEN ConvertRegularArray(from)
    ELSE LET value == ConvertRegularArray(from)
         IN IF value = Aborted
              THEN Aborted
              ELSE FieldValueMap([special |-> FieldValueBoolean(TRUE),
                                  type |-> FieldValueString("nested_array"),
                                  value |-> value])

\* ConvertRegularArray that leaves out the last element.
ConvertRegularArray_DropsLast(from) ==
  LET result == [i \in 1..(Len(from) - 1) |-> ConvertAny(from[i], TRUE)]
  IN IF \E i \in 1..(Len(from) - 1) : result[i] = Aborted
       THEN Aborted
       ELSE FieldValueArray(result)

\* ConvertRegularArray that converts its elements as top-level values.
ConvertRegularArray_ElementsAtTopLevel(from) ==
  LET result == [i \in 1..Len(from) |-> ConvertAny(from[i], FALSE)]
  IN IF \E i \in 1..Len(from) : result[i] = Aborted
       THEN Aborted
       ELSE FieldValueArray(result)

ConvertRegularArray(from) ==
  LET result == [i \in 1..Len(from) |-> ConvertAny(from[i], TRUE)]
  IN IF \E i \in 1..Len(from) : result[i] = Aborted
       THEN Aborted
       ELSE FieldValueArray(result)

\* ConvertSpecialValue with the Timestamp's arguments exchanged.
ConvertSpecialValue_SwappedTimestamp(from) ==
  LET type == TryGetString(from, "type")
  IN IF type = "" THEN FieldValueDefault
     ELSE IF type = "timestamp"
       THEN FieldValueTimestamp(Timestamp(TryGetInteger(from, "nanoseconds"),
                                          TryGetInteger(from, "seconds")))
     ELSE IF type = "geo_point"
       THEN FieldValueGeoPoint(GeoPoint(TryGetDouble(from, "latitude"),
                                        TryGetDouble(from, "longitude")))
     ELSE IF type = "document_reference"
       THEN FieldValueReference(Document(TryGetString(from, "document_path")))
     ELSE IF type = "delete" THEN FieldValueDelete
     ELSE IF type = "server_timestamp" THEN FieldValueServerTimestamp
     ELSE FieldValueDefault

\* ConvertSpecialValue that asserts on a "type" it does not know.
ConvertSpecialValue_AbortsOnUnknown(from) ==
  LET type == TryGetString(from, "type")
  IN IF type = "" THEN FieldValueDefault
     ELSE IF type = "timestamp"
       THEN FieldValueTimestamp(Timestamp(TryGetInteger(from, "seconds"),
                                          TryGetInteger(from, "nanoseconds")))
     ELSE IF type = "geo_point"
       THEN FieldValueGeoPoint(GeoPoint(TryGetDouble(from, "latitude"),
                                        TryGetDouble(from, "longitude")))
     ELSE IF type = "document_reference"
       THEN FieldValueReference(Document(TryGetString(from, "document_path")))
     ELSE IF type = "delete" THEN FieldValueDelete
     ELSE IF type = "server_timestamp" THEN FieldValueServerTimestamp
     ELSE Aborted

\* ConvertSpecialValue that converts the "value" of a nested_array map.
ConvertSpecialValue_UnwrapsNestedArray(from) ==
  LET type == TryGetString(from, "type")
  IN IF type = "" THEN FieldValueDefault
     ELSE IF type = "nested_array"
       THEN (IF VariantFind(from, "value") = {}
               THEN FieldValueArray(<<>>)
               ELSE ConvertAny(from[CHOOSE k \in VariantFind(from, "value") : TRUE], FALSE))
     ELSE IF type = "timestamp"
       THEN FieldValueTimestamp(Timestamp(TryGetInteger(from, "seconds"),
                                          TryGetInteger(from, "nanoseconds")))
     ELSE IF type = "geo_point"
       THEN FieldValueGeoPoint(GeoPoint(TryGetDouble(from, "latitude"),
                                        TryGetDouble(from, "longitude")))
     ELSE IF type = "document_reference"
       THEN FieldValueReference(Document(TryGetString(from, "document_path")))
     ELSE IF type = "delete" THEN FieldValueDelete
     ELSE IF type = "server_timestamp" THEN FieldValueServerTimestamp
     ELSE FieldValueDefault

ConvertSpecialValue(from) ==
  LET type == TryGetString(from, "type")
  IN IF type = "" THEN FieldValueDefault
     ELSE IF type = "timestamp"
       THEN FieldValueTimestamp(Timestamp(TryGetInteger(from, "seconds"),
                                          TryGetInteger(from, "nanoseconds")))
     ELSE IF type = "geo_point"
       THEN FieldValueGeoPoint(GeoPoint(TryGetDouble(from, "latitude"),
                                        TryGetDouble(from, "longitude")))
     ELSE IF type = "document_reference"
       THEN FieldValueReference(Document(TryGetString(from, "document_path")))
     ELSE IF type = "delete" THEN FieldValueDelete
     ELSE IF type = "server_timestamp" THEN FieldValueServerTimestamp
     ELSE FieldValueDefault

\* ConvertMap without the check of "special".
ConvertMap_AlwaysRegular(from) == ConvertRegularMap(from)

ConvertMap(from) ==
  LET is_special == TryGetBoolean(from, "special")
  IN IF is_special
       THEN ConvertSpecialValue(from)
       ELSE ConvertRegularMap(from)

\* ConvertRegularMap that skips the entries whose key is no string.
ConvertRegularMap_SkipsNonStringKeys(from) ==
  LET result == [s \in {k.string_value : k \in {j \in DOMAIN from : is_string(j)}} |->
                   ConvertVariantToFieldValue(
                     from[CHOOSE k \in DOMAIN from : is_string(k) /\ k.string_value = s])]
  IN IF \E s \in DOMAIN result : result[s] = Aborted
       THEN Aborted
       ELSE FieldValueMap(result)

\* ConvertRegularMap that converts every value as an element of an array.
ConvertRegularMap_ValuesWithinArray(from) ==
  LET result == [s \in {k.string_value : k \in {j \in DOMAIN from : is_string(j)}} |->
                   ConvertAny(
                     from[CHOOSE k \in DOMAIN from : is_string(k) /\ k.string_value = s],
                     TRUE)]
  IN IF \E k \in DOMAIN from : ~is_string(k)
       THEN Aborted
       ELSE IF \E s \in DOMAIN result : result[s] = Aborted
         THEN Aborted
         ELSE FieldValueMap(result)

\* assert(kv.first.is_string()) ends the process on a key that is no string (in
\* a build without assertions kv.first.string_value() makes the same check).
\* Distinct string keys have distinct characters, so each lands in an entry of
\* its own.
ConvertRegularMap(from) ==
  LET result == [s \in {k.string_value : k \in {j \in DOMAIN from : is_string(j)}} |->
                   ConvertVariantToFieldValue(
                     from[CHOOSE k \in DOMAIN from : is_string(k) /\ k.string_value = s])]
  IN IF \E k \in DOMAIN from : ~is_string(k)
       THEN Aborted
       ELSE IF \E s \in DOMAIN result : result[s] = Aborted
         THEN Aborted
         ELSE FieldValueMap(result)

(***************************************************************************)
(* FieldValue -> Variant                                                   *)
(***************************************************************************)
\* ConvertFieldValueToVariant that returns a string as a static string.
ConvertFieldValueToVariant_StaticString(from) ==
  CASE from.type = "kNull" -> VariantNull
    [] from.type = "kBoolean" -> VariantBool(from.boolean_value)
    [] from.type = "kInteger" -> VariantInt64(from.integer_value)
    [] from.type = "kDouble" -> VariantDouble(from.double_value)
    [] from.type = "kString" -> VariantStaticString(from.string_value)
    [] from.type = "kBlob" -> VariantMutableBlob(from.blob_value)
    [] from.type = "kArray" -> ConvertArrayFieldValue(from.array_value)
    [] from.type = "kMap" -> ConvertMapFieldValue(from.map_value)
    [] from.type = "kTimestamp" ->
         ConvertRegularMapFieldValue(
           [special |-> FieldValueBoolean(TRUE),
            type |-> FieldValueString("timestamp"),
            seconds |-> FieldValueInteger(from.timestamp_value.seconds),
            nanoseconds |-> FieldValueInteger(from.timestamp_value.nanoseconds)])
    [] from.type = "kGeoPoint" ->
         ConvertRegularMapFieldValue(
           [special |-> FieldValueBoolean(TRUE),
            type |-> FieldValueString("geo_point"),
            latitude |-> FieldValueDouble(from.geo_point_value.latitude),
            longitude |-> FieldValueDouble(from.geo_point_value.longitude)])
    [] from.type = "kReference" ->
         ConvertRegularMapFieldValue(
           [special |-> FieldValueBoolean(TRUE),
            type |-> FieldValueString("document_reference"),
            document_path |-> FieldValueString(from.reference_value.path)])
    [] from.type = "kDelete" ->
         ConvertRegularMapFieldValue(
           [special |-> FieldValueBoolean(TRUE),
            type |-> FieldValueString("delete")])
    [] from.type = "kServerTimestamp" ->
         ConvertRegularMapFieldValue(
           [special |-> FieldValueBoolean(TRUE),
            type |-> FieldValueString("server_timestamp")])
    [] from.type \in {"kArrayUnion", "kArrayRemove",
                      "kIncrementInteger", "kIncrementDouble"} -> Aborted
    [] OTHER -> Aborted

\* ConvertFieldValueToVariant with a GeoPoint's latitude and longitude exchanged.
ConvertFieldValueToVariant_SwappedGeoPoint(from) ==
  CASE from.type = "kNull" -> VariantNull
    [] from.type = "kBoolean" -> VariantBool(from.boolean_value)
    [] from.type = "kInteger" -> VariantInt64(from.integer_value)
    [] from.type = "kDouble" -> VariantDouble(from.double_value)
    [] from.type = "kString" -> VariantMutableString(from.string_value)
    [] from.type = "kBlob" -> VariantMutableBlob(from.blob_value)
    [] from.type = "kArray" -> ConvertArrayFieldValue(from.array_value)
    [] from.type = "kMap" -> ConvertMapFieldValue(from.map_value)
    [] from.type = "kTimestamp" ->
         ConvertRegularMapFieldValue(
           [special |-> FieldValueBoolean(TRUE),
            type |-> FieldValueString("timestamp"),
            seconds |-> FieldValueInteger(from.timestamp_value.seconds),
            nanoseconds |-> FieldValueInteger(from.timestamp_value.nanoseconds)])
    [] from.type = "kGeoPoint" ->
         ConvertRegularMapFieldValue(
           [special |-> FieldValueBoolean(TRUE),
            type |-> FieldValueString("geo_point"),
            latitude |-> FieldValueDouble(from.geo_point_value.longitude),
            longitude |-> FieldValueDouble(from.geo_point_value.latitude)])
    [] from.type = "kReference" ->
         ConvertRegularMapFieldValue(
           [special |-> FieldValueBoolean(TRUE),
            type |-> FieldValueString("document_reference"),
            document_path |-> FieldValueString(from.reference_value.path)])
    [] from.type = "kDelete" ->
         ConvertRegularMapFieldValue(
           [special |-> FieldValueBoolean(TRUE),
            type |-> FieldValueString("delete")])
    [] from.type = "kServerTimestamp" ->
         ConvertRegularMapFieldValue(
           [special |-> FieldValueBoolean(TRUE),
            type |-> FieldValueString("server_timestamp")])
    [] from.type \in {"kArrayUnion", "kArrayRemove",
                      "kIncrementInteger", "kIncrementDouble"} -> Aborted
    [] OTHER -> Aborted

\* ConvertFieldValueToVariant that gives null for a merge-only operation.
ConvertFieldValueToVariant_MergeOnlyAsNull(from) ==
  CASE from.type = "kNull" -> VariantNull
    [] from.type = "kBoolean" -> VariantBool(from.boolean_value)
    [] from.type = "kInteger" -> VariantInt64(from.integer_value)
    [] from.type = "kDouble" -> VariantDouble(from.double_value)
    [] from.type = "kString" -> VariantMutableString(from.string_value)
    [] from.type = "kBlob" -> VariantMutableBlob(from.blob_value)
    [] from.type = "kArray" -> ConvertArrayFieldValue(from.array_value)
    [] from.type = "kMap" -> ConvertMapFieldValue(from.map_value)
    [] from.type = "kTimestamp" ->
         ConvertRegularMapFieldValue(
           [special |-> FieldValueBoolean(TRUE),
            type |-> FieldValueString("timestamp"),
            seconds |-> FieldValueInteger(from.timestamp_value.seconds),
            nanoseconds |-> FieldValueInteger(from.timestamp_value.nanoseconds)])
    [] from.type = "kGeoPoint" ->
         ConvertRegularMapFieldValue(
           [special |-> FieldValueBoolean(TRUE),
            type |-> FieldValueString("geo_point"),
            latitude |-> FieldValueDouble(from.geo_point_value.latitude),
            longitude |-> FieldValueDouble(from.geo_point_value.longitude)])
    [] from.type = "kReference" ->
         ConvertRegularMapFieldValue(
           [special |-> FieldValueBoolean(TRUE),
            type |-> FieldValueString("document_reference"),
            document_path |-> FieldValueString(from.reference_value.path)])
    [] from.type = "kDelete" ->
         ConvertRegularMapFieldValue(
           [special |-> FieldValueBoolean(TRUE),
            type |-> FieldValueString("delete")])
    [] from.type = "kServerTimestamp" ->
         ConvertRegularMapFieldValue(
           [special |-> FieldValueBoolean(TRUE),
            type |-> FieldValueString("server_timestamp")])
    [] from.type \in {"kArrayUnion", "kArrayRemove",
                      "kIncrementInteger", "kIncrementDouble"} -> VariantNull
    [] OTHER -> Aborted

ConvertFieldValueToVariant(from) ==
  CASE from.type = "kNull" -> VariantNull
    [] from.type = "kBoolean" -> VariantBool(from.boolean_value)
    [] from.type = "kInteger" -> VariantInt64(from.integer_value)
    [] from.type = "kDouble" -> VariantDouble(from.double_value)
    [] from.type = "kString" -> VariantMutableString(from.string_value)
    [] from.type = "kBlob" -> VariantMutableBlob(from.blob_value)
    [] from.type = "kArray" -> ConvertArrayFieldValue(from.array_value)
    [] from.type = "kMap" -> ConvertMapFieldValue(from.map_value)
    [] from.type = "kTimestamp" ->
         ConvertRegularMapFieldValue(
           [special |-> FieldValueBoolean(TRUE),
            type |-> FieldValueString("timestamp"),
            seconds |-> FieldValueInteger(from.timestamp_value.seconds),
            nanoseconds |-> FieldValueInteger(from.timestamp_value.nanoseconds)])
    [] from.type = "kGeoPoint" ->
         ConvertRegularMapFieldValue(
           [special |-> FieldValueBoolean(TRUE),
            type |-> FieldValueString("geo_point"),
            latitude |-> FieldValueDouble(from.geo_point_value.latitude),
            longitude |-> FieldValueDouble(from.geo_point_value.longitude)])
    [] from.type = "kReference" ->
         ConvertRegularMapFieldValue(
           [special |-> FieldValueBoolean(TRUE),
            type |-> FieldValueString("document_reference"),
            document_path |-> FieldValueString(from.reference_value.path)])
    [] from.type = "kDelete" ->
         ConvertRegularMapFieldValue(
           [special |-> FieldValueBoolean(TRUE),
            type |-> FieldValueString("delete")])
    [] from.type = "kServerTimestamp" ->
         ConvertRegularMapFieldValue(
           [special |-> FieldValueBoolean(TRUE),
            type |-> FieldValueString("server_timestamp")])
    [] from.type \in {"kArrayUnion", "kArrayRemove",
                      "kIncrementInteger", "kIncrementDouble"} -> Aborted
    [] OTHER -> Aborted

\* ConvertArray (FieldValue) that fills the result from the back.
ConvertArrayFieldValue_Reversed(from) ==
  LET result == [i \in 1..Len(from) |-> ConvertFieldValueToVariant(from[Len(from) + 1 - i])]
  IN IF \E i \in 1..Len(from) : result[i] = Aborted
       THEN Aborted
       ELSE VariantVector(result)

ConvertArrayFieldValue(from) ==
  LET result == [i \in 1..Len(from) |-> ConvertFieldValueToVariant(from[i])]
  IN IF \E i \in 1..Len(from) : result[i] = Aborted
       THEN Aborted
       ELSE VariantVector(result)

\* ConvertSpecialValue (FieldValue) that converts a map of another "type" as a
\* regular map.
ConvertSpecialValueFieldValue_RegularForOtherTypes(from) ==
  LET type == TryGetStringFieldValue(from, "type")
  IN IF type = "nested_array"
       THEN ConvertArrayFieldValue(TryGetArray(from, "value"))
       ELSE ConvertRegularMapFieldValue(from)

\* ConvertSpecialValue (FieldValue) that unwraps the array only when it has
\* elements.
ConvertSpecialValueFieldValue_NullForEmpty(from) ==
  LET type == TryGetStringFieldValue(from, "type")
  IN IF type = "nested_array" /\ TryGetArray(from, "value") # <<>>
       THEN ConvertArrayFieldValue(TryGetArray(from, "value"))
       ELSE VariantNull

\* ConvertSpecialValue (FieldValue) that first converts every entry.
ConvertSpecialValueFieldValue_ConvertsEntries(from) ==
  LET type == TryGetStringFieldValue(from, "type")
  IN IF ConvertRegularMapFieldValue(from) = Aborted THEN Aborted
     ELSE IF type = "nested_array"
       THEN ConvertArrayFieldValue(TryGetArray(from, "value"))
     ELSE VariantNull

ConvertSpecialValueFieldValue(from) ==
  LET type == TryGetStringFieldValue(from, "type")
  IN IF type = "" THEN VariantNull
     ELSE IF type = "nested_array"
       THEN ConvertArrayFieldValue(TryGetArray(from, "value"))
     ELSE VariantNull

\* ConvertMap (FieldValue) that converts every map as a regular map.
ConvertMapFieldValue_AlwaysRegular(from) == ConvertRegularMapFieldValue(from)

\* ConvertMap (FieldValue) without the check of "special".
ConvertMapFieldValue_AlwaysSpecial(from) == ConvertSpecialValueFieldValue(from)

ConvertMapFieldValue(from) ==
  LET is_special == TryGetBooleanFieldValue(from, "special")
  IN IF is_special
       THEN ConvertSpecialValueFieldValue(from)
       ELSE ConvertRegularMapFieldValue(from)

\* ConvertRegularMap (FieldValue) that makes each key a blob of its characters.
ConvertRegularMapFieldValue_BlobKeys(from) ==
  LET result == [k \in {VariantMutableBlob(s) : s \in DOMAIN from} |->
                   ConvertFieldValueToVariant(from[k.blob_data])]
  IN IF \E k \in DOMAIN result : result[k] = Aborted
       THEN Aborted
       ELSE VariantMap(result)

\* Variant(kv.first) of a std::string key is a mutable string.
ConvertRegularMapFieldValue(from) ==
  LET result == [k \in {VariantMutableString(s) : s \in DOMAIN from} |->
                   ConvertFieldValueToVariant(from[k.string_value])]
  IN IF \E k \in DOMAIN result : result[k] = Aborted
       THEN Aborted
       ELSE VariantMap(result)

(***************************************************************************)
(* The values the conversions are applied to                               *)
(***************************************************************************)
SeqUpTo(S, n) == UNION {[1..k -> S] : k \in 0..n}
MapsOver(Keys, Vals) == UNION {[K -> Vals] : K \in SUBSET Keys}
\* No entry, or one entry under key with one of vals.
Opt(key, vals) == {<<>>} \cup {key :> v : v \in vals}
Join(A, B) == {a @@ b : a \in A, b \in B}
\* Variant("abc"): a const char* makes a static string.
Key(s) == VariantStaticString(s)

DVPrimitives ==
  {VariantNull, VariantBool(TRUE), VariantBool(FALSE),
   VariantInt64(0), VariantInt64(42),
   VariantDouble("0.0"), VariantDouble("43.0"),
   VariantStaticString("abc"), VariantMutableString("abc"), VariantMutableString(""),
   VariantStaticBlob(<<1, 2>>), VariantMutableBlob(<<1, 2>>), VariantMutableBlob(<<>>)}

DVListElems ==
  {VariantNull, VariantBool(TRUE), VariantInt64(42), VariantDouble("43.0"),
   VariantStaticString("abc"), VariantMutableString("def"), VariantStaticBlob(<<1, 2>>)}
DVPrimitiveLists == {VariantVector(s) : s \in SeqUpTo(DVListElems, MaxLen)}

\* Lists of lists, to three levels.
DVNested1 == {VariantVector(s) : s \in SeqUpTo({VariantStaticString("abc")}, MaxLen)}
DVNested2 ==
  {VariantVector(s) :
     s \in SeqUpTo({VariantStaticString("abc"), VariantInt64(42)} \cup DVNested1, MaxLen)}
DVNested3 == {VariantVector(<<l>>) : l \in DVNested2}
DVNestedLists == DVNested2 \cup DVNested3

\* Maps with string keys, without and with containers as values.
DVMapValues ==
  {VariantNull, VariantBool(TRUE), VariantInt64(42), VariantDouble("43.0"),
   VariantStaticString("abc"), VariantMutableBlob(<<1, 2>>),
   VariantVector(<<>>), VariantVector(<<VariantStaticString("def"), VariantNull>>),
   VariantVector(<<VariantVector(<<VariantStaticString("abc")>>)>>),
   VariantMap(<<>>),
   VariantMap(Key("boolean") :> VariantBool(FALSE) @@ Key("integer") :> VariantInt64(456))}
DVRegularMaps1 ==
  {VariantMap(m) : m \in MapsOver({Key("a"), VariantMutableString("b")}, DVMapValues)}
DVRegularMaps ==
  DVRegularMaps1 \cup {VariantMap(Key("nested_map") :> m) : m \in DVRegularMaps1}

\* Maps whose "special" entry is the boolean true, by "type" entry; each with
\* its payload entries present, absent or of another type, and with or
\* without entries the type does not name.
DVExtras ==
  {<<>>,
   Key("a") :> VariantInt64(1),
   VariantInt64(5) :> VariantNull,
   Key("a") :> VariantMap(VariantInt64(5) :> VariantNull)}
DVSpecialOf(type) ==
  Join({Key("special") :> VariantBool(TRUE)}, Join(Opt(Key("type"), {type}), DVExtras))
DVSpecialMaps ==
  {VariantMap(m) :
     m \in Join(DVSpecialOf(VariantStaticString("timestamp")),
                Join(Opt(Key("seconds"), {VariantInt64(123), VariantStaticString("x")}),
                     Opt(Key("nanoseconds"), {VariantInt64(456), VariantDouble("43.0")})))
           \cup Join(DVSpecialOf(VariantStaticString("geo_point")),
                Join(Opt(Key("latitude"), {VariantDouble("43.0"), VariantInt64(1)}),
                     Opt(Key("longitude"), {VariantDouble("80.0"), VariantStaticString("x")})))
           \cup Join(DVSpecialOf(VariantMutableString("document_reference")),
                     Opt(Key("document_path"),
                         {VariantStaticString("foo/bar"), VariantInt64(7)}))
           \cup DVSpecialOf(VariantStaticString("delete"))
           \cup DVSpecialOf(VariantStaticString("server_timestamp"))
           \cup Join(DVSpecialOf(VariantStaticString("nested_array")),
                     Opt(Key("value"), {VariantVector(<<VariantStaticString("abc")>>)}))
           \cup DVSpecialOf(VariantStaticString("bogus"))
           \cup DVSpecialOf(VariantStaticString(""))
           \cup DVSpecialOf(VariantInt64(5))}
\* The same maps as an element of a list and as a value of a regular map.
DVSpecialInside ==
  {VariantVector(<<m>>) : m \in DVSpecialMaps}
    \cup {VariantMap(Key("a") :> m) : m \in DVSpecialMaps}

\* Regular maps (no "special" entry that is the boolean true) with keys that
\* are and are not strings, alone and inside a list or a map.
DVKeys == {Key("a"), VariantInt64(5), VariantNull, VariantBool(TRUE)}
DVMixedKeyMaps1 ==
  {VariantMap(m) :
     m \in Join(MapsOver(DVKeys, {VariantInt64(1)}),
                Opt(Key("special"),
                    {VariantBool(FALSE), VariantInt64(1), VariantStaticString("true")}))}
DVMixedKeyMaps ==
  DVMixedKeyMaps1
    \cup {VariantVector(<<m>>) : m \in DVMixedKeyMaps1}
    \cup {VariantMap(Key("a") :> m) : m \in DVMixedKeyMaps1}

\* Regular maps as elements of a list, alone and beside a list.
DVMapsInside ==
  {VariantVector(<<m>>) : m \in DVRegularMaps1}
    \cup {VariantVector(<<VariantVector(<<m>>), m>>) : m \in DVRegularMaps1}

DVInputs ==
  DVPrimitives \cup DVPrimitiveLists \cup DVNestedLists \cup DVRegularMaps
    \cup DVSpecialMaps \cup DVSpecialInside \cup DVMixedKeyMaps \cup DVMapsInside

FVPrimitives ==
  {FieldValueNull, FieldValueBoolean(TRUE), FieldValueBoolean(FALSE),
   FieldValueInteger(0), FieldValueInteger(42),
   FieldValueDouble("0.0"), FieldValueDouble("43.0"),
   FieldValueString("abc"), FieldValueString(""),
   FieldValueBlob(<<1, 2>>), FieldValueBlob(<<>>)}
FVSentinels ==
  {FieldValueTimestamp(Timestamp(123, 456)), FieldValueTimestamp(Timestamp(0, 0)),
   FieldValueGeoPoint(GeoPoint("43.0", "80.0")), FieldValueGeoPoint(GeoPoint("0.0", "0.0")),
   FieldValueReference(Document("foo/bar")), FieldValueReference(Document("a/b")),
   FieldValueDelete, FieldValueServerTimestamp}
FVMergeOnly ==
  {FieldValueArrayUnion, FieldValueArrayRemove,
   FieldValueIncrementInteger, FieldValueIncrementDouble}

FVElems ==
  {FieldValueNull, FieldValueInteger(42), FieldValueString("abc"),
   FieldValueTimestamp(Timestamp(123, 456)), FieldValueGeoPoint(GeoPoint("43.0", "80.0")),
   FieldValueReference(Document("foo/bar")), FieldValueDelete, FieldValueServerTimestamp,
   FieldValueArrayUnion}
FVArrays == {FieldValueArray(s) : s \in SeqUpTo(FVElems, MaxLen)}
FVMaps ==
  {FieldValueMap(m) :
     m \in MapsOver({"a", "b"},
                    FVElems \cup {FieldValueArray(<<FieldValueTimestamp(Timestamp(123, 456))>>),
                                  FieldValueMap([a |-> FieldValueDelete])})}
FVDeep ==
  {FieldValueArray(<<m>>) : m \in FVMaps}
    \cup {FieldValueMap([a |-> arr]) : arr \in FVArrays}
    \cup {FieldValueArray(<<FieldValueMap([a |-> FieldValueArray(<<f>>)])>>) : f \in FVSentinels}
    \cup {FieldValueArray(<<FieldValueArray(<<f>>)>>) : f \in FVElems}

\* Maps with and without a "special" entry, a "type" entry and a "value" entry.
FVSpecialMaps ==
  {FieldValueMap(m) :
     m \in Join(Opt("special", {FieldValueBoolean(TRUE), FieldValueBoolean(FALSE),
                                FieldValueInteger(1), FieldValueString("true")}),
           Join(Opt("type", {FieldValueString("nested_array"), FieldValueString("timestamp"),
                             FieldValueString("bogus"), FieldValueString(""),
                             FieldValueInteger(3)}),
           Join(Opt("value", {FieldValueArray(<<>>),
                              FieldValueArray(<<FieldValueString("abc")>>),
                              FieldValueArray(<<FieldValueArray(<<FieldValueNull>>)>>),
                              FieldValueArray(<<FieldValueArrayUnion>>),
                              FieldValueInteger(7)}),
                Opt("a", {FieldValueInteger(1), FieldValueArrayUnion}))))}

\* The same maps as an element of an array.
FVSpecialInside == {FieldValueArray(<<FieldValueNull, m>>) : m \in FVSpecialMaps}

FVInputs ==
  FVPrimitives \cup {FieldValueDefault} \cup FVSentinels \cup FVMergeOnly
    \cup FVArrays \cup FVMaps \cup FVDeep \cup FVSpecialMaps \cup FVSpecialInside

(***************************************************************************)
(* The program: a caller holding a Converter converts a value, then        *)
(* converts the result back, and so on (converter_test.cc's Convert).      *)
(***************************************************************************)
VARIABLES
  source,    \* "Variant" or "FieldValue": the type of the original value
  values,    \* the original value, then the result of each conversion
  aborted,   \* whether the last conversion called ended the process
  converter, \* the Converter object: its data members
  threads    \* the call each thread makes on the converter, step by step

vars == <<source, values, aborted, converter, threads>>

\* Converter(firestore): the constructor stores the pointer; the class has no
\* other data member.
Converter(firestore) == [firestore_ |-> firestore]

Last == values[Len(values)]
LastType ==
  IF Len(values) % 2 = 1
    THEN source
    ELSE IF source = "Variant" THEN "FieldValue" ELSE "Variant"

Init ==
  /\ source \in {"Variant", "FieldValue"}
  /\ \E from \in (IF source = "Variant" THEN DVInputs ELSE FVInputs) : values = <<from>>
  /\ aborted = FALSE
  /\ converter = Converter("firestore")
  /\ threads = <<>>

CallConvertVariantToFieldValue ==
  /\ ~aborted
  /\ Len(values) <= MaxCalls
  /\ LastType = "Variant"
  /\ LET result == ConvertVariantToFieldValue(Last)
     IN IF result = Aborted
          THEN aborted' = TRUE /\ UNCHANGED values
          ELSE values' = Append(values, result) /\ UNCHANGED aborted
  /\ UNCHANGED <<source, converter, threads>>

CallConvertFieldValueToVariant ==
  /\ ~aborted
  /\ Len(values) <= MaxCalls
  /\ LastType = "FieldValue"
  /\ LET result == ConvertFieldValueToVariant(Last)
     IN IF result = Aborted
          THEN aborted' = TRUE /\ UNCHANGED values
          ELSE values' = Append(values, result) /\ UNCHANGED aborted
  /\ UNCHANGED <<source, converter, threads>>

Next == CallConvertVariantToFieldValue \/ CallConvertFieldValueToVariant

Spec == Init /\ [][Next]_vars

(***************************************************************************)
(* The same conversions step by step, as calls that several threads make   *)
(* on one Converter at the same time.  A thread has the argument of its    *)
(* call, what it does next (control), its call stack (one frame for each   *)
(* function that is inside a loop or between two statements, with the      *)
(* function's parameters and locals) and the paths it has passed to        *)
(* firestore_->Document so far.  A step is one dispatch, one loop          *)
(* iteration, one statement of ConvertSpecialValue or one return.          *)
(***************************************************************************)
Threads == {"t1", "t2"}

Call(value, within_array) ==
  [op |-> "call", value |-> value, within_array |-> within_array]
Run == [op |-> "run"]
Return(value) == [op |-> "return", value |-> value]
Done(value) == [op |-> "done", value |-> value]
Terminated == [op |-> "terminated"]

\* earlier is the record of the calls the thread has made before this one,
\* kept for the properties: the argument as it was passed and the outcome.
Thread(direction, from) ==
  [direction |-> direction, from |-> from, control |-> Call(from, FALSE),
   stack |-> <<>>, documents |-> <<>>, earlier |-> <<>>]

\* The string keys of the inputs below in the order of strcmp.
StringOrder == <<"a", "b", "document_path", "latitude", "seconds", "special", "type">>

\* Variant::operator< on keys: by type first (null, integer, double and boolean
\* come before the strings), two strings by their characters.
KeyRank(k) ==
  IF is_string(k)
    THEN CHOOSE i \in 1..Len(StringOrder) : StringOrder[i] = k.string_value
    ELSE 0

RECURSIVE KeysInOrder(_)
\* The keys of a std::map<Variant, Variant> in iteration order.
KeysInOrder(keys) ==
  IF keys = {}
    THEN <<>>
    ELSE LET first == CHOOSE k \in keys : \A j \in keys : KeyRank(k) <= KeyRank(j)
         IN <<first>> \o KeysInOrder(keys \ {first})

ConvertRegularArrayFrame(from, within_array) ==
  [fn |-> "ConvertRegularArray", from |-> from, within_array |-> within_array,
   result |-> <<>>]
ConvertRegularMapFrame(from) ==
  [fn |-> "ConvertRegularMap", from |-> from, keys |-> KeysInOrder(DOMAIN from),
   result |-> <<>>]
ConvertSpecialValueFrame(from) ==
  [fn |-> "ConvertSpecialValue", from |-> from, pc |-> "type", type |-> ""]
ConvertArrayFieldValueFrame(from) ==
  [fn |-> "ConvertArrayFieldValue", from |-> from, result |-> <<>>]
\* MapFieldValue is an unordered map: rest holds the entries the loop has not
\* visited, kv the key of the one it is visiting.
ConvertRegularMapFieldValueFrame(from) ==
  [fn |-> "ConvertRegularMapFieldValue", from |-> from, rest |-> DOMAIN from,
   kv |-> "", result |-> <<>>]

Top(thread) == thread.stack[Len(thread.stack)]
Pop(thread) == SubSeq(thread.stack, 1, Len(thread.stack) - 1)
SetTop(thread, frame) == [thread.stack EXCEPT ![Len(thread.stack)] = frame]
Running(thread, fn) ==
  thread.control = Run /\ thread.stack # <<>> /\ Top(thread).fn = fn

\* ConvertAny / ConvertArray / ConvertMap up to the function that loops: a
\* primitive returns at once, a list enters ConvertRegularArray (ConvertArray
\* keeps within_array to wrap the result), a map enters ConvertSpecialValue
\* or ConvertRegularMap by TryGetBoolean(from, "special").
StepConvertAny(thread) ==
  LET from == thread.control.value
      within_array == thread.control.within_array
  IN CASE from.type = "kTypeVector" ->
            [thread EXCEPT
               !.stack = Append(@, ConvertRegularArrayFrame(from.vector, within_array)),
               !.control = Run]
       [] from.type = "kTypeMap" ->
            [thread EXCEPT
               !.stack = Append(@, IF TryGetBoolean(from.map, "special")
                                     THEN ConvertSpecialValueFrame(from.map)
                                     ELSE ConvertRegularMapFrame(from.map)),
               !.control = Run]
       [] OTHER -> [thread EXCEPT !.control = Return(ConvertAny(from, within_array))]

\* ConvertRegularArray that empties the caller's list when it returns.
StepConvertRegularArray_ClearsFrom(thread) ==
  LET frame == Top(thread)
  IN IF Len(frame.result) < Len(frame.from)
       THEN [thread EXCEPT !.control = Call(frame.from[Len(frame.result) + 1], TRUE)]
       ELSE [thread EXCEPT
               !.from = VariantVector(<<>>),
               !.stack = Pop(thread),
               !.control =
                 Return(IF frame.within_array
                          THEN FieldValueMap([special |-> FieldValueBoolean(TRUE),
                                              type |-> FieldValueString("nested_array"),
                                              value |-> FieldValueArray(frame.result)])
                          ELSE FieldValueArray(frame.result))]

\* One iteration of the loop of ConvertRegularArray, or its return (and
\* ConvertArray's wrapping of what it returns).
StepConvertRegularArray(thread) ==
  LET frame == Top(thread)
  IN IF Len(frame.result) < Len(frame.from)
       THEN [thread EXCEPT !.control = Call(frame.from[Len(frame.result) + 1], TRUE)]
       ELSE [thread EXCEPT
               !.stack = Pop(thread),
               !.control =
                 Return(IF frame.within_array
                          THEN FieldValueMap([special |-> FieldValueBoolean(TRUE),
                                              type |-> FieldValueString("nested_array"),
                                              value |-> FieldValueArray(frame.result)])
                          ELSE FieldValueArray(frame.result))]

\* One iteration of the loop of ConvertRegularMap: the assertion on the key,
\* then the call of ConvertVariantToFieldValue on the value; or its return.
StepConvertRegularMap(thread) ==
  LET frame == Top(thread)
  IN IF frame.keys = <<>>
       THEN [thread EXCEPT !.stack = Pop(thread),
                           !.control = Return(FieldValueMap(frame.result))]
       ELSE IF ~is_string(Head(frame.keys))
         THEN [thread EXCEPT !.control = Terminated]
         ELSE [thread EXCEPT !.control = Call(frame.from[Head(frame.keys)], FALSE)]

\* firestore_->Document(path) as the resolver sees it: one more call, with
\* this path.
FirestoreDocument_Twice(documents, path) == Append(Append(documents, path), path)

FirestoreDocument(documents, path) == Append(documents, path)

\* The branches of ConvertSpecialValue on type; the one for
\* "document_reference" calls firestore_->Document.
BranchOnType(thread, type) ==
  LET from == Top(thread).from
  IN [thread EXCEPT
        !.stack = Pop(thread),
        !.documents =
          IF type = "document_reference"
            THEN FirestoreDocument(@, TryGetString(from, "document_path"))
            ELSE @,
        !.control =
          Return(
            IF type = "" THEN FieldValueDefault
            ELSE IF type = "timestamp"
              THEN FieldValueTimestamp(Timestamp(TryGetInteger(from, "seconds"),
                                                 TryGetInteger(from, "nanoseconds")))
            ELSE IF type = "geo_point"
              THEN FieldValueGeoPoint(GeoPoint(TryGetDouble(from, "latitude"),
                                               TryGetDouble(from, "longitude")))
            ELSE IF type = "document_reference"
              THEN FieldValueReference(Document(TryGetString(from, "document_path")))
            ELSE IF type = "delete" THEN FieldValueDelete
            ELSE IF type = "server_timestamp" THEN FieldValueServerTimestamp
            ELSE FieldValueDefault)]

\* ConvertSpecialValue that keeps `type` in a data member of the Converter.
StepConvertSpecialValue_TypeInMember(this, thread) ==
  LET frame == Top(thread)
  IN IF frame.pc = "type"
       THEN [this |-> [firestore_ |-> this.firestore_,
                       type_ |-> TryGetString(frame.from, "type")],
             thread |-> [thread EXCEPT
                           !.stack = SetTop(thread, [frame EXCEPT !.pc = "branch"])]]
       ELSE [this |-> this, thread |-> BranchOnType(thread, this.type_)]

\* ConvertSpecialValue that notes in the Converter that it has run, and
\* gives the default value from its second run on.
StepConvertSpecialValue_OnceOnly(this, thread) ==
  LET frame == Top(thread)
  IN IF frame.pc = "type"
       THEN [this |-> this,
             thread |-> [thread EXCEPT
                           !.stack = SetTop(thread,
                                       [frame EXCEPT
                                          !.type = TryGetString(frame.from, "type"),
                                          !.pc = "branch"])]]
       ELSE [this |-> [firestore_ |-> this.firestore_, used_ |-> TRUE],
             thread |-> BranchOnType(thread, IF "used_" \in DOMAIN this
                                               THEN ""
                                               ELSE frame.type)]

\* ConvertSpecialValue, a const member function, with its local `type` in
\* the thread's own frame.  First statement: type = TryGetString(from,
\* "type"); then the branches on type.
StepConvertSpecialValue(this, thread) ==
  LET frame == Top(thread)
  IN IF frame.pc = "type"
       THEN [this |-> this,
             thread |-> [thread EXCEPT
                           !.stack = SetTop(thread,
                                       [frame EXCEPT
                                          !.type = TryGetString(frame.from, "type"),
                                          !.pc = "branch"])]]
       ELSE [this |-> this, thread |-> BranchOnType(thread, frame.type)]

\* The as_map that ConvertFieldValueToVariant builds for a Firestore entity.
AsMap(from) ==
  CASE from.type = "kTimestamp" ->
         [special |-> FieldValueBoolean(TRUE),
          type |-> FieldValueString("timestamp"),
          seconds |-> FieldValueInteger(from.timestamp_value.seconds),
          nanoseconds |-> FieldValueInteger(from.timestamp_value.nanoseconds)]
    [] from.type = "kGeoPoint" ->
         [special |-> FieldValueBoolean(TRUE),
          type |-> FieldValueString("geo_point"),
          latitude |-> FieldValueDouble(from.geo_point_value.latitude),
          longitude |-> FieldValueDouble(from.geo_point_value.longitude)]
    [] from.type = "kReference" ->
         [special |-> FieldValueBoolean(TRUE),
          type |-> FieldValueString("document_reference"),
          document_path |-> FieldValueString(from.reference_value.path)]
    [] from.type = "kDelete" ->
         [special |-> FieldValueBoolean(TRUE), type |-> FieldValueString("delete")]
    [] from.type = "kServerTimestamp" ->
         [special |-> FieldValueBoolean(TRUE),
          type |-> FieldValueString("server_timestamp")]

\* ConvertFieldValueToVariant / ConvertMap / ConvertSpecialValue (FieldValue)
\* up to the function that loops: a primitive returns at once, an array and
\* the "value" of a nested_array map enter ConvertArray, a regular map and
\* the as_map of an entity enter ConvertRegularMap, a merge-only operation
\* ends the process.  No branch reads firestore_.
StepConvertFieldValueToVariant(thread) ==
  LET from == thread.control.value
  IN CASE from.type = "kArray" ->
            [thread EXCEPT !.stack = Append(@, ConvertArrayFieldValueFrame(from.array_value)),
                           !.control = Run]
       [] from.type = "kMap" ->
            IF ~TryGetBooleanFieldValue(from.map_value, "special")
              THEN [thread EXCEPT
                      !.stack = Append(@, ConvertRegularMapFieldValueFrame(from.map_value)),
                      !.control = Run]
              ELSE IF TryGetStringFieldValue(from.map_value, "type") = "nested_array"
                THEN [thread EXCEPT
                        !.stack = Append(@, ConvertArrayFieldValueFrame(
                                              TryGetArray(from.map_value, "value"))),
                        !.control = Run]
                ELSE [thread EXCEPT !.control = Return(VariantNull)]
       [] from.type \in {"kTimestamp", "kGeoPoint", "kReference", "kDelete",
                         "kServerTimestamp"} ->
            [thread EXCEPT !.stack = Append(@, ConvertRegularMapFieldValueFrame(AsMap(from))),
                           !.control = Run]
       [] from.type \in {"kArrayUnion", "kArrayRemove",
                         "kIncrementInteger", "kIncrementDouble"} ->
            [thread EXCEPT !.control = Terminated]
       [] OTHER -> [thread EXCEPT !.control = Return(ConvertFieldValueToVariant(from))]

\* One iteration of the loop of ConvertArray (FieldValue), or its return.
StepConvertArrayFieldValue(thread) ==
  LET frame == Top(thread)
  IN IF Len(frame.result) < Len(frame.from)
       THEN [thread EXCEPT !.control = Call(frame.from[Len(frame.result) + 1], FALSE)]
       ELSE [thread EXCEPT !.stack = Pop(thread),
                           !.control = Return(VariantVector(frame.result))]

\* One iteration of the loop of ConvertRegularMap (FieldValue) on the entry
\* kv, one of those not yet visited; or its return, with kv = "" for no entry.
StepConvertRegularMapFieldValue(thread, kv) ==
  LET frame == Top(thread)
  IN IF frame.rest = {}
       THEN [thread EXCEPT !.stack = Pop(thread),
                           !.control = Return(VariantMap(frame.result))]
       ELSE [thread EXCEPT
               !.stack = SetTop(thread, [frame EXCEPT !.kv = kv, !.rest = @ \ {kv}]),
               !.control = Call(frame.from[kv], FALSE)]

\* A return after which the caller's loop goes on without storing the value
\* and without moving to its next element.
StepReturn_SameElementAgain(thread) ==
  IF thread.stack = <<>>
    THEN [thread EXCEPT !.control = Done(thread.control.value)]
    ELSE [thread EXCEPT !.control = Run]

\* The return of a call: the caller's loop stores the value and goes on; the
\* return of the outermost function is the result of the thread's call.
StepReturn(thread) ==
  LET value == thread.control.value
  IN IF thread.stack = <<>>
       THEN [thread EXCEPT !.control = Done(value)]
       ELSE LET frame == Top(thread)
            IN [thread EXCEPT
                  !.control = Run,
                  !.stack =
                    SetTop(thread,
                      CASE frame.fn \in {"ConvertRegularArray", "ConvertArrayFieldValue"} ->
                             [frame EXCEPT !.result = Append(@, value)]
                        [] frame.fn = "ConvertRegularMap" ->
                             [frame EXCEPT
                                !.result = (Head(frame.keys).string_value :> value) @@ @,
                                !.keys = Tail(@)]
                        [] frame.fn = "ConvertRegularMapFieldValue" ->
                             [frame EXCEPT
                                !.result = (VariantMutableString(frame.kv) :> value) @@ @])]

\* The calls the threads make: values of every kind of the converter_test.cc
\* cases, maps of the special types with and without their payload, and
\* values on which the conversion ends the process.
DVDocumentReference(path) ==
  VariantMap(Key("special") :> VariantBool(TRUE)
             @@ Key("type") :> VariantStaticString("document_reference")
             @@ Key("document_path") :> path)
DVStepInputs ==
  {VariantInt64(42),
   VariantVector(<<VariantStaticString("abc"), VariantVector(<<VariantNull>>)>>),
   VariantMap(Key("a") :> VariantInt64(1) @@ Key("b") :> VariantVector(<<VariantBool(TRUE)>>)),
   VariantMap(Key("special") :> VariantBool(TRUE)
              @@ Key("type") :> VariantStaticString("timestamp")
              @@ Key("seconds") :> VariantInt64(123)),
   VariantMap(Key("special") :> VariantBool(TRUE)
              @@ Key("type") :> VariantStaticString("geo_point")
              @@ Key("latitude") :> VariantDouble("43.0")),
   VariantMap(Key("special") :> VariantBool(TRUE)),
   DVDocumentReference(VariantStaticString("foo/bar")),
   VariantVector(<<DVDocumentReference(VariantStaticString("foo/bar")),
                   DVDocumentReference(VariantInt64(7))>>),
   VariantMap(Key("a") :> DVDocumentReference(VariantStaticString("foo/bar"))
              @@ Key("b") :> VariantMap(VariantInt64(5) :> VariantNull)),
   VariantMap(VariantInt64(5) :> DVDocumentReference(VariantStaticString("foo/bar"))
              @@ Key("a") :> VariantNull)}
FVStepInputs ==
  {FieldValueString("abc"),
   FieldValueArray(<<FieldValueInteger(1),
                     FieldValueMap([special |-> FieldValueBoolean(TRUE),
                                    type |-> FieldValueString("nested_array"),
                                    value |-> FieldValueArray(<<FieldValueNull>>)])>>),
   FieldValueMap([a |-> FieldValueInteger(1), b |-> FieldValueArray(<<FieldValueBoolean(TRUE)>>)]),
   FieldValueMap([special |-> FieldValueBoolean(TRUE), type |-> FieldValueString("timestamp")]),
   FieldValueReference(Document("foo/bar")),
   FieldValueTimestamp(Timestamp(123, 456)),
   FieldValueArray(<<FieldValueDelete, FieldValueArrayUnion>>)}
StepCalls ==
  {Thread("encode", from) : from \in DVStepInputs}
    \cup {Thread("decode", from) : from \in FVStepInputs}

InitSteps ==
  /\ source = "Variant"
  /\ values = <<>>
  /\ aborted = FALSE
  /\ converter = Converter("firestore")
  /\ threads \in [Threads -> StepCalls]

ThreadConvertAny(t) ==
  /\ threads[t].direction = "encode"
  /\ threads[t].control.op = "call"
  /\ threads' = [threads EXCEPT ![t] = StepConvertAny(threads[t])]
  /\ UNCHANGED <<source, values, aborted, converter>>

ThreadConvertRegularArray(t) ==
  /\ Running(threads[t], "ConvertRegularArray")
  /\ threads' = [threads EXCEPT ![t] = StepConvertRegularArray(threads[t])]
  /\ UNCHANGED <<source, values, aborted, converter>>

ThreadConvertRegularMap(t) ==
  /\ Running(threads[t], "ConvertRegularMap")
  /\ threads' = [threads EXCEPT ![t] = StepConvertRegularMap(threads[t])]
  /\ UNCHANGED <<source, values, aborted, converter>>

ThreadConvertSpecialValue(t) ==
  /\ Running(threads[t], "ConvertSpecialValue")
  /\ LET step == StepConvertSpecialValue(converter, threads[t])
     IN /\ converter' = step.this
        /\ threads' = [threads EXCEPT ![t] = step.thread]
  /\ UNCHANGED <<source, values, aborted>>

ThreadConvertFieldValueToVariant(t) ==
  /\ threads[t].direction = "decode"
  /\ threads[t].control.op = "call"
  /\ threads' = [threads EXCEPT ![t] = StepConvertFieldValueToVariant(threads[t])]
  /\ UNCHANGED <<source, values, aborted, converter>>

ThreadConvertArrayFieldValue(t) ==
  /\ Running(threads[t], "ConvertArrayFieldValue")
  /\ threads' = [threads EXCEPT ![t] = StepConvertArrayFieldValue(threads[t])]
  /\ UNCHANGED <<source, values, aborted, converter>>

ThreadConvertRegularMapFieldValue(t) ==
  /\ Running(threads[t], "ConvertRegularMapFieldValue")
  /\ \E kv \in (IF Top(threads[t]).rest = {} THEN {""} ELSE Top(threads[t]).rest) :
       threads' = [threads EXCEPT ![t] = StepConvertRegularMapFieldValue(threads[t], kv)]
  /\ UNCHANGED <<source, values, aborted, converter>>

ThreadReturn(t) ==
  /\ threads[t].control.op = "return"
  /\ threads' = [threads EXCEPT ![t] = StepReturn(threads[t])]
  /\ UNCHANGED <<source, values, aborted, converter>>

NextSteps ==
  \E t \in Threads :
    \/ ThreadConvertAny(t)
    \/ ThreadConvertRegularArray(t)
    \/ ThreadConvertRegularMap(t)
    \/ ThreadConvertSpecialValue(t)
    \/ ThreadConvertFieldValueToVariant(t)
    \/ ThreadConvertArrayFieldValue(t)
    \/ ThreadConvertRegularMapFieldValue(t)
    \/ ThreadReturn(t)

SpecSteps == InitSteps /\ [][NextSteps]_vars

\* The conversions do not block or wait: while a thread has a step to take,
\* the process takes steps.
SpecStepsFair == SpecSteps /\ WF_vars(NextSteps)

(***************************************************************************)
(* Runs: threads that make a second call on the same Converter after their *)
(* first has returned, so that a call may come after, or run beside, any   *)
(* other call.                                                             *)
(***************************************************************************)
RunCalls ==
  {Thread("encode", VariantStaticString("abc")),
   Thread("encode", VariantMutableString("abc")),
   Thread("encode", VariantVector(<<VariantMap(Key("a") :> VariantInt64(1))>>)),
   Thread("encode", VariantMap(Key("special") :> VariantBool(TRUE)
                               @@ Key("type") :> VariantStaticString("timestamp"))),
   Thread("decode", FieldValueMap([a |-> FieldValueInteger(1), b |-> FieldValueString("x")])),
   Thread("decode", FieldValueArray(<<FieldValueArrayUnion>>))}

InitRuns ==
  /\ source = "Variant"
  /\ values = <<>>
  /\ aborted = FALSE
  /\ converter = Converter("firestore")
  /\ threads \in [Threads -> RunCalls]

\* The caller takes the result of its first call and makes a second call.
ThreadCallAgain(t) ==
  /\ threads[t].control.op = "done"
  /\ threads[t].earlier = <<>>
  /\ \E call \in RunCalls :
       threads' = [threads EXCEPT
                     ![t] = [call EXCEPT
                               !.earlier = <<[direction |-> threads[t].direction,
                                              from |-> threads[t].from,
                                              outcome |-> threads[t].control]>>]]
  /\ UNCHANGED <<source, values, aborted, converter>>

NextRuns ==
  \/ NextSteps
  \/ \E t \in Threads : ThreadCallAgain(t)

SpecRuns == InitRuns /\ [][NextRuns]_vars

(***************************************************************************)
(* Properties.  Two values are equal when they have the same kind and the  *)
(* same payload; a static and a mutable string (or blob) are one kind, as  *)
(* for Variant's own comparison.                                           *)
(***************************************************************************)
RECURSIVE Owned(_)
\* v with every static string and static blob, keys included, made mutable.
Owned(v) ==
  CASE v.type = "kTypeStaticString" -> VariantMutableString(v.string_value)
    [] v.type = "kTypeStaticBlob" -> VariantMutableBlob(v.blob_data)
    [] v.type = "kTypeVector" -> VariantVector([i \in 1..Len(v.vector) |-> Owned(v.vector[i])])
    [] v.type = "kTypeMap" ->
         VariantMap([k \in {Owned(j) : j \in DOMAIN v.map} |->
                       Owned(v.map[CHOOSE j \in DOMAIN v.map : Owned(j) = k])])
    [] OTHER -> v
VariantEquals(a, b) == Owned(a) = Owned(b)

DVPrimitiveTypes ==
  {"kTypeNull", "kTypeBool", "kTypeInt64", "kTypeDouble", "kTypeStaticString",
   "kTypeMutableString", "kTypeStaticBlob", "kTypeMutableBlob"}
FVPrimitiveTypes == {"kNull", "kBoolean", "kInteger", "kDouble", "kString", "kBlob"}
IsDVPrimitive(v) == v.type \in DVPrimitiveTypes
IsFVPrimitive(f) == f.type \in FVPrimitiveTypes /\ f # FieldValueDefault

\* The FieldValue primitive of the same kind and payload as the Variant
\* primitive v.
SamePrimitive(v, f) ==
  CASE v.type = "kTypeNull" -> f = FieldValueNull
    [] v.type = "kTypeBool" -> f.type = "kBoolean" /\ f.boolean_value = v.bool_value
    [] v.type = "kTypeInt64" -> f.type = "kInteger" /\ f.integer_value = v.int64_value
    [] v.type = "kTypeDouble" -> f.type = "kDouble" /\ f.double_value = v.double_value
    [] v.type \in {"kTypeStaticString", "kTypeMutableString"} ->
         f.type = "kString" /\ f.string_value = v.string_value
    [] v.type \in {"kTypeStaticBlob", "kTypeMutableBlob"} ->
         f.type = "kBlob" /\ f.blob_value = v.blob_data
    [] OTHER -> FALSE

\* C1: the round trip of a primitive, from either side, returns and gives the
\* primitive back; each conversion maps it to the primitive of the same kind
\* with the same payload.
C1_PrimitiveRoundTrip ==
  /\ (source = "Variant" /\ IsDVPrimitive(values[1])) =>
       /\ ~aborted
       /\ Len(values) >= 2 => IsFVPrimitive(values[2]) /\ SamePrimitive(values[1], values[2])
       /\ Len(values) >= 3 => VariantEquals(values[3], values[1])
  /\ (source = "FieldValue" /\ IsFVPrimitive(values[1])) =>
       /\ ~aborted
       /\ Len(values) >= 2 => IsDVPrimitive(values[2]) /\ SamePrimitive(values[2], values[1])
       /\ Len(values) >= 3 => values[3] = values[1]

C1_Witness ==
  /\ source = "Variant"
  /\ Len(values) >= 3
  /\ values[1] = VariantStaticBlob(<<1, 2>>)
  /\ values[2] = FieldValueBlob(<<1, 2>>)
  /\ values[3] = VariantMutableBlob(<<1, 2>>)

\* Whether the Variant map m has an entry under the string name.
HasKey(m, name) == \E k \in DOMAIN m : is_string(k) /\ k.string_value = name
\* The value of that entry.
Entry(m, name) == m[CHOOSE k \in DOMAIN m : is_string(k) /\ k.string_value = name]
\* Whether m has the entry "special" with the boolean true as its value.
IsSpecial(m) == HasKey(m, "special") /\ Entry(m, "special") = VariantBool(TRUE)

RECURSIVE StringKeyed(_)
\* Every map in v, at any depth, has only string keys.
StringKeyed(v) ==
  CASE v.type = "kTypeVector" -> \A i \in 1..Len(v.vector) : StringKeyed(v.vector[i])
    [] v.type = "kTypeMap" ->
         \A k \in DOMAIN v.map : is_string(k) /\ StringKeyed(v.map[k])
    [] OTHER -> TRUE

RECURSIVE NoSpecial(_)
\* No map in v, at any depth, has the entry "special" with the value true.
NoSpecial(v) ==
  CASE v.type = "kTypeVector" -> \A i \in 1..Len(v.vector) : NoSpecial(v.vector[i])
    [] v.type = "kTypeMap" ->
         ~IsSpecial(v.map) /\ \A k \in DOMAIN v.map : NoSpecial(v.map[k])
    [] OTHER -> TRUE

\* C2 as stated: every map with string keys (at every depth) and primitive,
\* list or map values is given back by encoding and then decoding it.
C2_MapRoundTripAsStated ==
  (source = "Variant" /\ values[1].type = "kTypeMap" /\ StringKeyed(values[1])) =>
    /\ ~aborted
    /\ Len(values) >= 3 => VariantEquals(values[3], values[1])

\* C2 as amended: every map with string keys in which no map, at any depth,
\* has the entry "special" with the boolean true as its value is given back by
\* encoding and then decoding it, with all its entries.
C2_MapRoundTrip ==
  (source = "Variant" /\ values[1].type = "kTypeMap" /\ StringKeyed(values[1])
     /\ NoSpecial(values[1])) =>
    /\ ~aborted
    /\ Len(values) >= 3 => VariantEquals(values[3], values[1])

C2_Witness ==
  /\ source = "Variant"
  /\ Len(values) >= 3
  /\ values[1] =
       VariantMap(Key("nested_map") :>
         VariantMap(Key("a") :> VariantVector(<<VariantVector(<<VariantStaticString("abc")>>)>>)
                    @@ VariantMutableString("b") :>
                         VariantMap(Key("boolean") :> VariantBool(FALSE)
                                    @@ Key("integer") :> VariantInt64(456))))
  /\ values[2].type = "kMap"
  /\ VariantEquals(values[3], values[1])

FVSentinelTypes == {"kTimestamp", "kGeoPoint", "kReference", "kDelete", "kServerTimestamp"}
IsSentinel(f) == f.type \in FVSentinelTypes

RECURSIVE HoldsSentinel(_)
\* f is a sentinel, or holds one as an element or as a value at some depth.
HoldsSentinel(f) ==
  CASE f.type = "kArray" -> \E i \in 1..Len(f.array_value) : HoldsSentinel(f.array_value[i])
    [] f.type = "kMap" -> \E s \in DOMAIN f.map_value : HoldsSentinel(f.map_value[s])
    [] OTHER -> IsSentinel(f)

RECURSIVE SentinelCarrier(_)
\* f is a primitive or a sentinel, or an array of such values (Firestore has
\* no array that is an element of an array), or a regular map of such values
\* (one whose "special" entry is not the boolean true).
SentinelCarrier(f) ==
  CASE f.type = "kArray" ->
         \A i \in 1..Len(f.array_value) :
           f.array_value[i].type # "kArray" /\ SentinelCarrier(f.array_value[i])
    [] f.type = "kMap" ->
         /\ ~("special" \in DOMAIN f.map_value
                /\ f.map_value["special"] = FieldValueBoolean(TRUE))
         /\ \A s \in DOMAIN f.map_value : SentinelCarrier(f.map_value[s])
    [] OTHER -> IsFVPrimitive(f) \/ IsSentinel(f)

\* C3: decoding and then encoding a Timestamp, GeoPoint, Reference, Delete or
\* ServerTimestamp returns and gives back the same value, also when it is an
\* element of an array or a value of a regular map, at any depth.
C3_SentinelRoundTrip ==
  (source = "FieldValue" /\ SentinelCarrier(values[1]) /\ HoldsSentinel(values[1])) =>
    /\ ~aborted
    /\ Len(values) >= 3 => values[3] = values[1]

C3_Witness ==
  /\ source = "FieldValue"
  /\ Len(values) >= 3
  /\ values[1] =
       FieldValueArray(<<FieldValueMap(
         [a |-> FieldValueArray(<<FieldValueTimestamp(Timestamp(123, 456))>>)])>>)
  /\ values[2].type = "kTypeVector"
  /\ values[3] = values[1]

\* The map the decoder is documented to give for the sentinel f.
SentinelShape(f) ==
  CASE f.type = "kTimestamp" ->
         VariantMap(Key("special") :> VariantBool(TRUE)
                    @@ Key("type") :> VariantStaticString("timestamp")
                    @@ Key("seconds") :> VariantInt64(f.timestamp_value.seconds)
                    @@ Key("nanoseconds") :> VariantInt64(f.timestamp_value.nanoseconds))
    [] f.type = "kGeoPoint" ->
         VariantMap(Key("special") :> VariantBool(TRUE)
                    @@ Key("type") :> VariantStaticString("geo_point")
                    @@ Key("latitude") :> VariantDouble(f.geo_point_value.latitude)
                    @@ Key("longitude") :> VariantDouble(f.geo_point_value.longitude))
    [] f.type = "kReference" ->
         VariantMap(Key("special") :> VariantBool(TRUE)
                    @@ Key("type") :> VariantStaticString("document_reference")
                    @@ Key("document_path") :> VariantStaticString(f.reference_value.path))
    [] f.type = "kDelete" ->
         VariantMap(Key("special") :> VariantBool(TRUE)
                    @@ Key("type") :> VariantStaticString("delete"))
    [] f.type = "kServerTimestamp" ->
         VariantMap(Key("special") :> VariantBool(TRUE)
                    @@ Key("type") :> VariantStaticString("server_timestamp"))

\* C4: decoding a sentinel returns the map of the documented shape for its
\* kind, with exactly those entries.
C4_SentinelShape ==
  (source = "FieldValue" /\ IsSentinel(values[1])) =>
    /\ ~(aborted /\ Len(values) = 1)
    /\ Len(values) >= 2 => VariantEquals(values[2], SentinelShape(values[1]))

C4_Witness ==
  /\ source = "FieldValue"
  /\ Len(values) >= 2
  /\ values[1] = FieldValueGeoPoint(GeoPoint("43.0", "80.0"))
  /\ DOMAIN values[2].map =
       {VariantMutableString("special"), VariantMutableString("type"),
        VariantMutableString("latitude"), VariantMutableString("longitude")}
  /\ values[2].map[VariantMutableString("latitude")] = VariantDouble("43.0")
  /\ values[2].map[VariantMutableString("longitude")] = VariantDouble("80.0")

RECURSIVE PureList(_)
\* v is a list whose elements are primitives and lists of this kind.
PureList(v) ==
  /\ v.type = "kTypeVector"
  /\ \A i \in 1..Len(v.vector) : IsDVPrimitive(v.vector[i]) \/ PureList(v.vector[i])

\* The FieldValue primitive of the kind and payload of the Variant primitive v.
PrimitiveImage(v) ==
  CASE v.type = "kTypeNull" -> FieldValueNull
    [] v.type = "kTypeBool" -> FieldValueBoolean(v.bool_value)
    [] v.type = "kTypeInt64" -> FieldValueInteger(v.int64_value)
    [] v.type = "kTypeDouble" -> FieldValueDouble(v.double_value)
    [] v.type \in {"kTypeStaticString", "kTypeMutableString"} -> FieldValueString(v.string_value)
    [] v.type \in {"kTypeStaticBlob", "kTypeMutableBlob"} -> FieldValueBlob(v.blob_data)

RECURSIVE NestedImage(_, _)
\* The documented encoding of a list of primitives and lists: an array of the
\* same length, each element that is a list replaced by the map
\* {special: true, type: "nested_array", value: <the array of its elements>}.
NestedImage(v, element) ==
  IF v.type # "kTypeVector"
    THEN PrimitiveImage(v)
    ELSE LET array ==
               FieldValueArray([i \in 1..Len(v.vector) |-> NestedImage(v.vector[i], TRUE)])
         IN IF element
              THEN FieldValueMap([special |-> FieldValueBoolean(TRUE),
                                  type |-> FieldValueString("nested_array"),
                                  value |-> array])
              ELSE array

\* C5: a list with an element that is a list is encoded as an array of the
\* same length with that element as a nested_array map holding the array of
\* the inner list's encoded elements, at every depth; decoding the result
\* gives the list back.
C5_NestedArrayRoundTrip ==
  (source = "Variant" /\ PureList(values[1])
     /\ \E i \in 1..Len(values[1].vector) : values[1].vector[i].type = "kTypeVector") =>
    /\ ~aborted
    /\ Len(values) >= 2 =>
         /\ values[2].type = "kArray"
         /\ Len(values[2].array_value) = Len(values[1].vector)
         /\ values[2] = NestedImage(values[1], FALSE)
    /\ Len(values) >= 3 => VariantEquals(values[3], values[1])

C5_Witness ==
  /\ source = "Variant"
  /\ Len(values) >= 3
  /\ values[1] =
       VariantVector(<<VariantVector(<<VariantVector(<<>>), VariantStaticString("abc")>>)>>)
  /\ values[2] =
       FieldValueArray(<<FieldValueMap(
         [special |-> FieldValueBoolean(TRUE),
          type |-> FieldValueString("nested_array"),
          value |-> FieldValueArray(<<
            FieldValueMap([special |-> FieldValueBoolean(TRUE),
                           type |-> FieldValueString("nested_array"),
                           value |-> FieldValueArray(<<>>)]),
            FieldValueString("abc")>>)])>>)
  /\ VariantEquals(values[3], values[1])

\* C6: a list of primitives is given back by encoding and then decoding it.
C6_ArrayRoundTrip ==
  (source = "Variant" /\ values[1].type = "kTypeVector"
     /\ \A i \in 1..Len(values[1].vector) : IsDVPrimitive(values[1].vector[i])) =>
    /\ ~aborted
    /\ Len(values) >= 3 => VariantEquals(values[3], values[1])

C6_Witness ==
  /\ source = "Variant"
  /\ Len(values) >= 3
  /\ values[1] = VariantVector(<<VariantInt64(42), VariantStaticBlob(<<1, 2>>)>>)
  /\ values[2] = FieldValueArray(<<FieldValueInteger(42), FieldValueBlob(<<1, 2>>)>>)
  /\ values[3] = VariantVector(<<VariantInt64(42), VariantMutableBlob(<<1, 2>>)>>)

\* C7 as stated: the encoding of a map with a key that is no string never
\* returns.
C7_NonStringKeyAbortsAsStated ==
  (source = "Variant" /\ values[1].type = "kTypeMap"
     /\ \E k \in DOMAIN values[1].map : ~is_string(k)) =>
    Len(values) = 1

\* C7 as amended: the encoding of a map that has a key that is no string and
\* whose "special" entry is not the boolean true (a regular map) never
\* returns; the encoding of a map whose "special" entry is the boolean true
\* reads its "type" and payload entries only and returns, whatever the keys
\* of its other entries.
C7_NonStringKeyAborts ==
  (source = "Variant" /\ values[1].type = "kTypeMap"
     /\ \E k \in DOMAIN values[1].map : ~is_string(k)) =>
    IF IsSpecial(values[1].map)
      THEN ~(aborted /\ Len(values) = 1)
      ELSE Len(values) = 1

C7_Witness ==
  /\ source = "Variant"
  /\ values = <<VariantMap(Key("a") :> VariantInt64(1) @@ VariantInt64(5) :> VariantInt64(1))>>
  /\ aborted

FVMergeOnlyTypes == {"kArrayUnion", "kArrayRemove", "kIncrementInteger", "kIncrementDouble"}

\* C8: decoding an ArrayUnion, ArrayRemove, IncrementInteger or
\* IncrementDouble never returns a value: the call ends the process.
C8_MergeOnlyAborts ==
  (source = "FieldValue" /\ values[1].type \in FVMergeOnlyTypes) => Len(values) = 1

C8_Witness ==
  /\ source = "FieldValue"
  /\ values = <<FieldValueIncrementDouble>>
  /\ aborted

\* Whether the FieldValue map m has the entry "special" with the boolean true.
IsSpecialFV(m) == "special" \in DOMAIN m /\ m["special"] = FieldValueBoolean(TRUE)
\* Whether its "type" entry is the string "nested_array".
IsNestedArrayFV(m) == "type" \in DOMAIN m /\ m["type"] = FieldValueString("nested_array")
\* The regular map of the decoded entries of m.
DecodedEntries(m) ==
  VariantMap([k \in {VariantMutableString(s) : s \in DOMAIN m} |->
                ConvertFieldValueToVariant(m[k.string_value])])

\* C9 as stated: a map with special = true and a "type" other than
\* "nested_array", and a map with no "special" entry, decode to the regular
\* map of their decoded entries.
C9_OtherTypesDecodeAsMapAsStated ==
  (source = "FieldValue" /\ Len(values) >= 2 /\ values[1].type = "kMap"
     /\ \/ /\ IsSpecialFV(values[1].map_value)
           /\ "type" \in DOMAIN values[1].map_value
           /\ values[1].map_value["type"].type = "kString"
           /\ values[1].map_value["type"].string_value \notin {"", "nested_array"}
        \/ "special" \notin DOMAIN values[1].map_value) =>
    values[2] = DecodedEntries(values[1].map_value)

\* C9 as amended: a map with special = true and a "type" other than
\* "nested_array" (or none, or one that is no string) decodes to the null
\* Variant, whatever its entries; a map whose "special" entry is absent or is
\* not the boolean true decodes, when the decoding of its entries returns, to
\* the regular map of its decoded entries.
C9_OtherTypesDecodeAsNull ==
  (source = "FieldValue" /\ values[1].type = "kMap") =>
    IF IsSpecialFV(values[1].map_value)
      THEN ~IsNestedArrayFV(values[1].map_value) =>
             /\ ~(aborted /\ Len(values) = 1)
             /\ Len(values) >= 2 => values[2] = VariantNull
      ELSE Len(values) >= 2 => values[2] = DecodedEntries(values[1].map_value)

C9_Witness ==
  /\ source = "FieldValue"
  /\ Len(values) >= 2
  /\ values[1] = FieldValueMap([special |-> FieldValueBoolean(TRUE),
                                type |-> FieldValueString("timestamp"),
                                a |-> FieldValueInteger(1)])
  /\ values[2] = VariantNull

DVKnownTypes == {"timestamp", "geo_point", "document_reference", "delete", "server_timestamp"}

\* C10: encoding a map with special = true whose "type" entry is absent, is
\* no string, is the empty string or is a string other than timestamp,
\* geo_point, document_reference, delete and server_timestamp returns the
\* default-constructed FieldValue; it does not end the process.
C10_UnknownSpecialType ==
  (source = "Variant" /\ values[1].type = "kTypeMap" /\ IsSpecial(values[1].map)
     /\ (HasKey(values[1].map, "type") /\ is_string(Entry(values[1].map, "type"))
           => Entry(values[1].map, "type").string_value \notin DVKnownTypes)) =>
    /\ ~(aborted /\ Len(values) = 1)
    /\ Len(values) >= 2 => values[2] = FieldValueDefault

C10_Witness ==
  /\ source = "Variant"
  /\ Len(values) >= 2
  /\ values[1] = VariantMap(Key("special") :> VariantBool(TRUE)
                            @@ Key("type") :> VariantStaticString("bogus")
                            @@ VariantInt64(5) :> VariantNull)
  /\ values[2] = FieldValueDefault

RECURSIVE RegularKeysAreStrings(_)
\* Every map of v that is converted as a regular map (one reached through
\* lists and regular maps, whose "special" entry is not the boolean true) has
\* only string keys.  The entries of a map with special = true are not
\* converted, so what they hold does not count.
RegularKeysAreStrings(v) ==
  CASE v.type = "kTypeVector" ->
         \A i \in 1..Len(v.vector) : RegularKeysAreStrings(v.vector[i])
    [] v.type = "kTypeMap" ->
         IsSpecial(v.map)
           \/ \A k \in DOMAIN v.map : is_string(k) /\ RegularKeysAreStrings(v.map[k])
    [] OTHER -> TRUE

\* C11: ConvertVariantToFieldValue returns for every value in which every map
\* reached by the regular-map path has only string keys, and it ends the
\* process for every other value: a key that is no string is the only way
\* the encoding fails.
C11_EncodeIsTotal ==
  source = "Variant" =>
    /\ RegularKeysAreStrings(values[1]) => ~(aborted /\ Len(values) = 1)
    /\ ~RegularKeysAreStrings(values[1]) => Len(values) = 1

C11_Witness ==
  /\ source = "Variant"
  /\ Len(values) >= 2
  /\ values[1] =
       VariantVector(<<VariantMap(Key("special") :> VariantBool(TRUE)
                                  @@ Key("type") :> VariantStaticString("delete")
                                  @@ Key("a") :> VariantMap(VariantInt64(5) :> VariantNull))>>)
  /\ values[2] = FieldValueArray(<<FieldValueDelete>>)

\* C14: a static and a mutable string of the same characters encode to the
\* same FieldValue string, and a static and a mutable blob of the same bytes
\* to the same FieldValue blob; a FieldValue string always decodes to a
\* mutable string and a FieldValue blob to a mutable blob, of the same
\* characters and bytes.
C14_OwnershipKinds ==
  LET from == values[1]
  IN /\ (source = "Variant" /\ is_string(from)) =>
          /\ ~aborted
          /\ Len(values) >= 2 => values[2] = FieldValueString(from.string_value)
     /\ (source = "Variant" /\ from.type \in {"kTypeStaticBlob", "kTypeMutableBlob"}) =>
          /\ ~aborted
          /\ Len(values) >= 2 => values[2] = FieldValueBlob(from.blob_data)
     /\ (source = "FieldValue" /\ from.type = "kString") =>
          /\ ~aborted
          /\ Len(values) >= 2 => values[2] = VariantMutableString(from.string_value)
     /\ (source = "FieldValue" /\ from.type = "kBlob") =>
          /\ ~aborted
          /\ Len(values) >= 2 => values[2] = VariantMutableBlob(from.blob_value)

\* A static string has been encoded and the result decoded.
C14_Witness ==
  /\ source = "Variant"
  /\ Len(values) >= 3
  /\ values[1].type = "kTypeStaticString"
  /\ values[2].type = "kString"
  /\ values[3] = VariantMutableString(values[1].string_value)

RECURSIVE PolicyImage(_, _)
\* The encoding of a value of primitives, lists and regular maps under the
\* nested-array policy: a list is wrapped as a nested_array map exactly when
\* it is a direct element of a list (element = TRUE); the value of a map
\* entry is never a direct element of a list.
PolicyImage(v, element) ==
  CASE v.type = "kTypeVector" ->
         LET array ==
               FieldValueArray([i \in 1..Len(v.vector) |-> PolicyImage(v.vector[i], TRUE)])
         IN IF element
              THEN FieldValueMap([special |-> FieldValueBoolean(TRUE),
                                  type |-> FieldValueString("nested_array"),
                                  value |-> array])
              ELSE array
    [] v.type = "kTypeMap" ->
         FieldValueMap([s \in {k.string_value : k \in DOMAIN v.map} |->
                          PolicyImage(Entry(v.map, s), FALSE)])
    [] OTHER -> PrimitiveImage(v)

\* C15: a list is encoded as the nested_array map if and only if it is a
\* direct element of another list; a list at the top level and a list that is
\* the value of a map entry are encoded as a plain array, also when the map
\* is itself an element of a list.
C15_NestedArrayPolicyScope ==
  (source = "Variant" /\ StringKeyed(values[1]) /\ NoSpecial(values[1])) =>
    /\ ~aborted
    /\ Len(values) >= 2 => values[2] = PolicyImage(values[1], FALSE)

\* A list inside a list and a list as the value of an entry of a map inside
\* the same list have been encoded: the first wrapped, the second plain.
C15_Witness ==
  /\ source = "Variant"
  /\ Len(values) >= 2
  /\ values[1].type = "kTypeVector"
  /\ Len(values[1].vector) = 2
  /\ values[1].vector[1].type = "kTypeVector"
  /\ values[1].vector[2] = VariantMap(Key("a") :> VariantVector(<<>>))
  /\ values[2].array_value[1].type = "kMap"
  /\ values[2].array_value[2] = FieldValueMap([a |-> FieldValueArray(<<>>)])

RECURSIVE NoArrayInArray(_)
\* No array in f, at any depth, has an element that is an array.
NoArrayInArray(f) ==
  CASE f.type = "kArray" ->
         \A i \in 1..Len(f.array_value) :
           f.array_value[i].type # "kArray" /\ NoArrayInArray(f.array_value[i])
    [] f.type = "kMap" ->
         \A s \in DOMAIN f.map_value : NoArrayInArray(f.map_value[s])
    [] OTHER -> TRUE

\* C16: in every result ConvertVariantToFieldValue returns, no array has an
\* element that is an array.
C16_NoArraysOfArrays ==
  \A i \in 2..Len(values) :
    (IF i % 2 = 0 THEN source = "Variant" ELSE source = "FieldValue") =>
      NoArrayInArray(values[i])

\* A list holding a list that holds a list has been encoded.
C16_Witness ==
  /\ source = "Variant"
  /\ Len(values) >= 2
  /\ values[1].type = "kTypeVector"
  /\ \E i \in 1..Len(values[1].vector) :
       /\ values[1].vector[i].type = "kTypeVector"
       /\ \E j \in 1..Len(values[1].vector[i].vector) :
            values[1].vector[i].vector[j].type = "kTypeVector"
  /\ values[2].type = "kArray"

\* C17: in both directions a map takes the special-value path if and only
\* if it has the entry "special" with the boolean true as its value: the
\* result of that path is no map.  A map whose "special" entry is absent,
\* false or no boolean is converted as a regular map: the result is a map
\* with an entry for each of its entries, the entry "special" included, each
\* holding the conversion of the entry's value.
C17_SpecialMapDetection ==
  LET from == values[1]
  IN /\ (source = "Variant" /\ from.type = "kTypeMap" /\ IsSpecial(from.map)) =>
          /\ ~aborted
          /\ Len(values) >= 2 =>
               /\ values[2].type # "kMap"
               /\ values[2] = ConvertSpecialValue(from.map)
     /\ (source = "Variant" /\ from.type = "kTypeMap" /\ ~IsSpecial(from.map)
           /\ Len(values) >= 2) =>
          /\ values[2].type = "kMap"
          /\ DOMAIN values[2].map_value = {k.string_value : k \in DOMAIN from.map}
          /\ \A k \in DOMAIN from.map :
               values[2].map_value[k.string_value] = ConvertVariantToFieldValue(from.map[k])
          /\ HasKey(from.map, "special") =>
               values[2].map_value["special"] = PrimitiveImage(Entry(from.map, "special"))
     /\ (source = "FieldValue" /\ from.type = "kMap" /\ IsSpecialFV(from.map_value)) =>
          /\ ~(aborted /\ Len(values) = 1 /\ ~IsNestedArrayFV(from.map_value))
          /\ Len(values) >= 2 =>
               /\ values[2].type # "kTypeMap"
               /\ values[2] = ConvertSpecialValueFieldValue(from.map_value)
     /\ (source = "FieldValue" /\ from.type = "kMap" /\ ~IsSpecialFV(from.map_value)
           /\ Len(values) >= 2) =>
          /\ values[2].type = "kTypeMap"
          /\ DOMAIN values[2].map = {VariantMutableString(s) : s \in DOMAIN from.map_value}
          /\ \A s \in DOMAIN from.map_value :
               values[2].map[VariantMutableString(s)] =
                 ConvertFieldValueToVariant(from.map_value[s])

\* A map whose "special" entry is the integer 1, with a "type" entry that
\* names a special type, has been encoded as a regular map.
C17_Witness ==
  /\ source = "Variant"
  /\ Len(values) >= 2
  /\ values[1].type = "kTypeMap"
  /\ HasKey(values[1].map, "special")
  /\ Entry(values[1].map, "special") = VariantInt64(1)
  /\ values[2].type = "kMap"
  /\ values[2].map_value["special"] = FieldValueInteger(1)

\* The map m has special = true and the string name as its "type".
IsSpecialOfType(m, name) ==
  /\ IsSpecial(m)
  /\ HasKey(m, "type")
  /\ is_string(Entry(m, "type"))
  /\ Entry(m, "type").string_value = name

\* The payload of the entry name of m when the entry is there and of the
\* kind type, and zero otherwise.
PayloadOr(m, name, types, zero) ==
  IF HasKey(m, name) /\ Entry(m, name).type \in types
    THEN LET entry == Entry(m, name)
         IN CASE entry.type = "kTypeInt64" -> entry.int64_value
              [] entry.type = "kTypeDouble" -> entry.double_value
              [] OTHER -> entry.string_value
    ELSE zero

DVStringTypes == {"kTypeStaticString", "kTypeMutableString"}

\* C18: encoding a special map never fails on a payload entry that is absent
\* or of another kind; the entry counts as its zero value.  Type "timestamp"
\* gives Timestamp(seconds or 0, nanoseconds or 0), type "geo_point" gives
\* GeoPoint(latitude or 0.0, longitude or 0.0), and type "document_reference"
\* gives the reference of the path "document_path" or "".
C18_ZeroValueDefaults ==
  LET m == values[1].map
  IN (source = "Variant" /\ values[1].type = "kTypeMap") =>
       /\ IsSpecialOfType(m, "timestamp") =>
            /\ ~aborted
            /\ Len(values) >= 2 =>
                 values[2] = FieldValueTimestamp(
                               Timestamp(PayloadOr(m, "seconds", {"kTypeInt64"}, 0),
                                         PayloadOr(m, "nanoseconds", {"kTypeInt64"}, 0)))
       /\ IsSpecialOfType(m, "geo_point") =>
            /\ ~aborted
            /\ Len(values) >= 2 =>
                 values[2] = FieldValueGeoPoint(
                               GeoPoint(PayloadOr(m, "latitude", {"kTypeDouble"}, "0.0"),
                                        PayloadOr(m, "longitude", {"kTypeDouble"}, "0.0")))
       /\ IsSpecialOfType(m, "document_reference") =>
            /\ ~aborted
            /\ Len(values) >= 2 =>
                 values[2] = FieldValueReference(
                               Document(PayloadOr(m, "document_path", DVStringTypes, "")))

\* A timestamp map whose "seconds" is a string and whose "nanoseconds" is
\* absent has been encoded.
C18_Witness ==
  /\ source = "Variant"
  /\ Len(values) >= 2
  /\ values[1].type = "kTypeMap"
  /\ IsSpecialOfType(values[1].map, "timestamp")
  /\ HasKey(values[1].map, "seconds")
  /\ is_string(Entry(values[1].map, "seconds"))
  /\ ~HasKey(values[1].map, "nanoseconds")
  /\ values[2] = FieldValueTimestamp(Timestamp(0, 0))

\* The array in the entry "value" of m, empty when there is none.
ValueArray(m) ==
  IF "value" \in DOMAIN m /\ m["value"].type = "kArray" THEN m["value"].array_value ELSE <<>>

\* to is the bare list of the decoded elements of the "value" array of m.
IsUnwrapped(m, to) ==
  /\ to.type = "kTypeVector"
  /\ Len(to.vector) = Len(ValueArray(m))
  /\ \A i \in 1..Len(to.vector) : to.vector[i] = ConvertFieldValueToVariant(ValueArray(m)[i])

\* C19: a FieldValue map with special = true and type "nested_array" decodes
\* to the bare list of the decoded elements of its "value" array, in order,
\* at the top level and as an element of an array; the list is empty when
\* "value" is absent or no array.  The decoding fails only when the decoding
\* of an element of "value" does.
C19_DecodeNestedArray ==
  LET from == values[1]
  IN /\ (source = "FieldValue" /\ from.type = "kMap"
           /\ IsSpecialFV(from.map_value) /\ IsNestedArrayFV(from.map_value)) =>
          /\ (aborted /\ Len(values) = 1) =>
               \E i \in 1..Len(ValueArray(from.map_value)) :
                 ConvertFieldValueToVariant(ValueArray(from.map_value)[i]) = Aborted
          /\ Len(values) >= 2 => IsUnwrapped(from.map_value, values[2])
     /\ (source = "FieldValue" /\ from.type = "kArray" /\ Len(values) >= 2) =>
          \A i \in 1..Len(from.array_value) :
            (/\ from.array_value[i].type = "kMap"
             /\ IsSpecialFV(from.array_value[i].map_value)
             /\ IsNestedArrayFV(from.array_value[i].map_value)) =>
              IsUnwrapped(from.array_value[i].map_value, values[2].vector[i])

\* A nested_array map inside an array has been decoded to a list inside a
\* list.
C19_Witness ==
  /\ source = "FieldValue"
  /\ Len(values) >= 2
  /\ values[1].type = "kArray"
  /\ Len(values[1].array_value) = 2
  /\ values[1].array_value[2] =
       FieldValueMap([special |-> FieldValueBoolean(TRUE),
                      type |-> FieldValueString("nested_array"),
                      value |-> FieldValueArray(<<FieldValueString("abc")>>)])
  /\ values[2] = VariantVector(<<VariantNull,
                                 VariantVector(<<VariantMutableString("abc")>>)>>)

\* C20: encoding a list of length n gives an array of length n whose i-th
\* element is the encoding of the i-th element of the list (as an element of
\* an array), and decoding an array of length n gives a list of length n
\* whose i-th element is the decoding of the i-th element of the array; a
\* primitive element is the primitive of the same kind and payload at the
\* same index.
C20_OrderAndLength ==
  LET from == values[1]
      to == values[2]
  IN /\ (source = "Variant" /\ from.type = "kTypeVector" /\ Len(values) >= 2) =>
          /\ to.type = "kArray"
          /\ Len(to.array_value) = Len(from.vector)
          /\ \A i \in 1..Len(from.vector) :
               /\ to.array_value[i] = ConvertAny(from.vector[i], TRUE)
               /\ IsDVPrimitive(from.vector[i]) =>
                    to.array_value[i] = PrimitiveImage(from.vector[i])
     /\ (source = "FieldValue" /\ from.type = "kArray" /\ Len(values) >= 2) =>
          /\ to.type = "kTypeVector"
          /\ Len(to.vector) = Len(from.array_value)
          /\ \A i \in 1..Len(from.array_value) :
               /\ to.vector[i] = ConvertFieldValueToVariant(from.array_value[i])
               /\ IsFVPrimitive(from.array_value[i]) =>
                    SamePrimitive(to.vector[i], from.array_value[i])

\* A list of two different elements has been encoded.
C20_Witness ==
  /\ source = "Variant"
  /\ Len(values) >= 2
  /\ values[1].type = "kTypeVector"
  /\ Len(values[1].vector) = 2
  /\ values[1].vector[1] # values[1].vector[2]
  /\ values[2].type = "kArray"
  /\ values[2].array_value[1] # values[2].array_value[2]

\* The result of the call of a thread when it runs alone.
Alone(thread) ==
  IF thread.direction = "encode"
    THEN ConvertVariantToFieldValue(thread.from)
    ELSE ConvertFieldValueToVariant(thread.from)

\* C13: when the calls of several threads on one Converter are interleaved
\* step by step, each call that returns returns what the same call returns
\* alone, and each call that ends the process is one that does so alone; no
\* step changes the Converter, whose only data member is the pointer to the
\* Firestore instance.
C13_ConcurrentUseIsSafe ==
  /\ converter = Converter("firestore")
  /\ \A t \in DOMAIN threads :
       /\ threads[t].control.op = "done" => threads[t].control.value = Alone(threads[t])
       /\ threads[t].control = Terminated => Alone(threads[t]) = Aborted

\* Two calls are inside ConvertSpecialValue at the same time, each past the
\* read of its own "type", and the types differ.
C13_Witness ==
  /\ DOMAIN threads = Threads
  /\ \A t \in Threads :
       /\ Running(threads[t], "ConvertSpecialValue")
       /\ Top(threads[t]).pc = "branch"
  /\ Top(threads["t1"]).type = "timestamp"
  /\ Top(threads["t2"]).type = "document_reference"

RECURSIVE Flatten(_)
Flatten(seqs) == IF seqs = <<>> THEN <<>> ELSE Head(seqs) \o Flatten(Tail(seqs))

RECURSIVE DocumentPaths(_)
\* For each special map of type "document_reference" that the encoding of v
\* reaches (through lists and regular maps, in the order of the traversal),
\* the string in its "document_path" entry.
DocumentPaths(v) ==
  CASE v.type = "kTypeVector" ->
         Flatten([i \in 1..Len(v.vector) |-> DocumentPaths(v.vector[i])])
    [] v.type = "kTypeMap" ->
         IF IsSpecial(v.map)
           THEN IF IsSpecialOfType(v.map, "document_reference")
                  THEN <<PayloadOr(v.map, "document_path", DVStringTypes, "")>>
                  ELSE <<>>
           ELSE LET keys == KeysInOrder(DOMAIN v.map)
                IN Flatten([i \in 1..Len(keys) |-> DocumentPaths(v.map[keys[i]])])
    [] OTHER -> <<>>

IsPrefix(s, t) == Len(s) <= Len(t) /\ s = SubSeq(t, 1, Len(s))

\* C12: a call of ConvertFieldValueToVariant never calls firestore_->Document.
\* A call of ConvertVariantToFieldValue calls it once for each special map of
\* type "document_reference" it reaches, in the order it reaches them, with
\* the map's "document_path" string, and for nothing else: at every moment
\* the calls made are the first of those, and at the return they are all of
\* them.
C12_ResolverUsage ==
  \A t \in DOMAIN threads :
    LET thread == threads[t]
    IN /\ thread.direction = "decode" => thread.documents = <<>>
       /\ thread.direction = "encode" =>
            /\ IsPrefix(thread.documents, DocumentPaths(thread.from))
            /\ thread.control.op = "done" =>
                 thread.documents = DocumentPaths(thread.from)

\* The encoding of a list of two document_reference maps has returned after
\* two calls of the resolver, and the decoding of a reference after none.
C12_Witness ==
  /\ DOMAIN threads = Threads
  /\ threads["t1"].direction = "encode"
  /\ threads["t1"].control.op = "done"
  /\ threads["t1"].documents = <<"foo/bar", "">>
  /\ threads["t2"].from = FieldValueReference(Document("foo/bar"))
  /\ threads["t2"].control.op = "done"

\* C21: in every value ConvertFieldValueToVariant returns, every key of
\* every map, at any depth, is a string; ConvertVariantToFieldValue on that
\* value returns.
C21_StringKeysInDecoderOutput ==
  /\ source = "FieldValue" =>
       /\ Len(values) >= 2 => StringKeyed(values[2])
       /\ ~(aborted /\ Len(values) = 2)
       /\ Len(values) >= 4 => StringKeyed(values[4])
  /\ source = "Variant" =>
       /\ Len(values) >= 3 => StringKeyed(values[3])
       /\ ~(aborted /\ Len(values) = 3)

\* A map inside an array inside a map has been decoded and the result encoded.
C21_Witness ==
  /\ source = "FieldValue"
  /\ Len(values) >= 3
  /\ values[1].type = "kArray"
  /\ Len(values[1].array_value) = 1
  /\ values[1].array_value[1].type = "kMap"
  /\ DOMAIN values[1].array_value[1].map_value # {}
  /\ values[2].vector[1].type = "kTypeMap"
  /\ \A k \in DOMAIN values[2].vector[1].map : is_string(k)
  /\ values[3].type = "kArray"

\* The calls that have ended: those a thread made earlier and the one it is
\* in when that has returned or ended the process.
EndedRuns ==
  UNION {{threads[t].earlier[i] : i \in 1..Len(threads[t].earlier)}
           \cup (IF threads[t].control.op \in {"done", "terminated"}
                   THEN {[direction |-> threads[t].direction,
                          from |-> threads[t].from,
                          outcome |-> threads[t].control]}
                   ELSE {}) : t \in DOMAIN threads}

\* C22: two runs of the same conversion on equal arguments (for Variants:
\* the same kind and payload) either both end the process or both return the
\* same value, whichever calls were made on the Converter before them or
\* run beside them, and in whichever order an unordered map is visited.
C22_Determinism ==
  \A r1, r2 \in EndedRuns :
    (/\ r1.direction = r2.direction
     /\ IF r1.direction = "encode"
          THEN VariantEquals(r1.from, r2.from)
          ELSE r1.from = r2.from) =>
      r1.outcome = r2.outcome

\* A thread has encoded the static string "abc" after a special map, the
\* other the mutable string "abc" after a decoding, with the same result.
C22_Witness ==
  /\ DOMAIN threads = Threads
  /\ threads["t1"].from = VariantStaticString("abc")
  /\ threads["t2"].from = VariantMutableString("abc")
  /\ Len(threads["t1"].earlier) = 1
  /\ Len(threads["t2"].earlier) = 1
  /\ threads["t1"].earlier[1].from.type = "kTypeMap"
  /\ threads["t2"].earlier[1].direction = "decode"
  /\ threads["t1"].control = Done(FieldValueString("abc"))
  /\ threads["t2"].control = Done(FieldValueString("abc"))

Max(S) == IF S = {} THEN 0 ELSE CHOOSE x \in S : \A y \in S : y <= x

RECURSIVE NestingDepth(_)
\* How deep the containers of a value are nested: 0 for a primitive, one more
\* than its deepest element or entry for a list, array or map.  A Firestore
\* entity counts as the map it is decoded to.
NestingDepth(v) ==
  CASE v.type = "kTypeVector" ->
         1 + Max({NestingDepth(v.vector[i]) : i \in 1..Len(v.vector)})
    [] v.type = "kTypeMap" -> 1 + Max({NestingDepth(v.map[k]) : k \in DOMAIN v.map})
    [] v.type = "kArray" ->
         1 + Max({NestingDepth(v.array_value[i]) : i \in 1..Len(v.array_value)})
    [] v.type = "kMap" ->
         1 + Max({NestingDepth(v.map_value[s]) : s \in DOMAIN v.map_value})
    [] v.type \in {"kTimestamp", "kGeoPoint", "kReference", "kDelete", "kServerTimestamp"} -> 1
    [] OTHER -> 0

DepthBounded ==
  \A t \in DOMAIN threads : Len(threads[t].stack) <= NestingDepth(threads[t].from)

AllEnded ==
  \A t \in DOMAIN threads : threads[t].control.op \in {"done", "terminated"}

\* C23: every call of ConvertVariantToFieldValue and of
\* ConvertFieldValueToVariant ends, with a value or with the end of the
\* process, and at no moment has it more loops open, one inside the other,
\* than the containers of its argument are nested.
C23_Termination == []DepthBounded /\ <>AllEnded

\* A call on a list inside a list is two loops deep, its argument's nesting,
\* while the other call has ended.
C23_Witness ==
  /\ DOMAIN threads = Threads
  /\ threads["t1"].from =
       VariantVector(<<VariantStaticString("abc"), VariantVector(<<VariantNull>>)>>)
  /\ Len(threads["t1"].stack) = 2
  /\ threads["t2"].control.op = "terminated"

\* C24: the Converter holds the pointer to the Firestore instance and
\* nothing else, at every moment of every sequence of calls; no step changes
\* it, and no step of a call changes the argument of the call (the argument
\* of a thread changes only when the thread makes its next call).
C24_Frame ==
  /\ [](converter = Converter("firestore"))
  /\ [][/\ converter' = converter
        /\ \A t \in DOMAIN threads :
             threads'[t].from = threads[t].from \/ threads[t].control.op = "done"]_vars

\* Both threads have made two calls, one of them of each direction, and the
\* Converter is as constructed.
C24_Witness ==
  /\ DOMAIN threads = Threads
  /\ \A t \in Threads : Len(threads[t].earlier) = 1 /\ threads[t].control.op = "done"
  /\ threads["t1"].earlier[1].direction = "encode"
  /\ threads["t1"].direction = "decode"
  /\ threads["t1"].earlier[1].from.type = "kTypeVector"
  /\ converter = Converter("firestore")

\* C25: for every FieldValue on which ConvertFieldValueToVariant returns,
\* ConvertVariantToFieldValue returns on the result d, and decoding what it
\* returns gives d again.
C25_DecoderOutputFixedPoint ==
  source = "FieldValue" =>
    /\ ~(aborted /\ Len(values) \in {2, 3})
    /\ Len(values) >= 4 => values[4] = values[2]

\* A GeoPoint inside an array has been decoded, encoded and decoded again.
C25_Witness ==
  /\ source = "FieldValue"
  /\ Len(values) >= 4
  /\ values[1].type = "kArray"
  /\ \E i \in 1..Len(values[1].array_value) : values[1].array_value[i].type = "kGeoPoint"
  /\ values[4] = values[2]

\* C26 as stated: for every Variant on which ConvertVariantToFieldValue
\* returns, ConvertFieldValueToVariant returns on the result f, and encoding
\* what it returns gives f again.
C26_EncoderOutputFixedPointAsStated ==
  source = "Variant" =>
    /\ ~(aborted /\ Len(values) \in {2, 3})
    /\ Len(values) >= 4 => values[4] = values[2]

RECURSIVE NoDefault(_)
\* No default-constructed FieldValue is in f, at any depth.
NoDefault(f) ==
  CASE f.type = "kArray" -> \A i \in 1..Len(f.array_value) : NoDefault(f.array_value[i])
    [] f.type = "kMap" -> \A s \in DOMAIN f.map_value : NoDefault(f.map_value[s])
    [] OTHER -> f # FieldValueDefault

\* C26 as amended: for every Variant on which ConvertVariantToFieldValue
\* returns a value f that holds no default-constructed FieldValue (no special
\* map without one of the five types was reached), ConvertFieldValueToVariant
\* returns on f, and encoding what it returns gives f again.  On every other
\* f it returns as well, and the encoding has a null FieldValue in the place
\* of each default-constructed one.
C26_EncoderOutputFixedPoint ==
  source = "Variant" =>
    /\ ~(aborted /\ Len(values) \in {2, 3})
    /\ (Len(values) >= 4 /\ NoDefault(values[2])) => values[4] = values[2]
    /\ (Len(values) >= 4 /\ ~NoDefault(values[2])) =>
         /\ values[4] # values[2]
         /\ NoDefault(values[4])

\* A list holding a document_reference map has been encoded, the result
\* decoded, and that encoded again.
C26_Witness ==
  /\ source = "Variant"
  /\ Len(values) >= 4
  /\ values[1].type = "kTypeVector"
  /\ \E i \in 1..Len(values[1].vector) : values[1].vector[i].type = "kTypeMap"
  /\ values[2].type = "kArray"
  /\ \E i \in 1..Len(values[2].array_value) : values[2].array_value[i].type = "kReference"
  /\ values[4] = values[2]

\* The names of the keys of the Variant map m.
KeyNames(m) == {k.string_value : k \in DOMAIN m}

\* m is one of the five maps the decoder builds for a Firestore entity: its
\* "type" and exactly the payload entries of that type, each of its kind.
IsEntityMap(m) ==
  /\ \A k \in DOMAIN m : is_string(k)
  /\ \/ /\ IsSpecialOfType(m, "timestamp")
        /\ KeyNames(m) = {"special", "type", "seconds", "nanoseconds"}
        /\ is_int64(Entry(m, "seconds")) /\ is_int64(Entry(m, "nanoseconds"))
     \/ /\ IsSpecialOfType(m, "geo_point")
        /\ KeyNames(m) = {"special", "type", "latitude", "longitude"}
        /\ is_double(Entry(m, "latitude")) /\ is_double(Entry(m, "longitude"))
     \/ /\ IsSpecialOfType(m, "document_reference")
        /\ KeyNames(m) = {"special", "type", "document_path"}
        /\ is_string(Entry(m, "document_path"))
     \/ /\ IsSpecialOfType(m, "delete") \/ IsSpecialOfType(m, "server_timestamp")
        /\ KeyNames(m) = {"special", "type"}

RECURSIVE SpecialMapsAreEntities(_)
\* Every map in v, at any depth, that has special = true is an entity map.
SpecialMapsAreEntities(v) ==
  CASE v.type = "kTypeVector" ->
         \A i \in 1..Len(v.vector) : SpecialMapsAreEntities(v.vector[i])
    [] v.type = "kTypeMap" ->
         /\ IsSpecial(v.map) => IsEntityMap(v.map)
         /\ \A k \in DOMAIN v.map : SpecialMapsAreEntities(v.map[k])
    [] OTHER -> TRUE

\* C27: in every value ConvertFieldValueToVariant returns, each map with
\* special = true has one of the types timestamp, geo_point,
\* document_reference, delete and server_timestamp and exactly the payload
\* entries of that type; none has the type "nested_array" or another type,
\* and the encoding of the value holds no default-constructed FieldValue.
C27_SpecialMapsFromEntitiesOnly ==
  /\ source = "FieldValue" =>
       /\ Len(values) >= 2 => SpecialMapsAreEntities(values[2])
       /\ Len(values) >= 3 => NoDefault(values[3])
       /\ Len(values) >= 4 => SpecialMapsAreEntities(values[4])
  /\ source = "Variant" =>
       /\ Len(values) >= 3 => SpecialMapsAreEntities(values[3])
       /\ Len(values) >= 4 => NoDefault(values[4])

\* An array holding a map with special = true and type "bogus" has been
\* decoded, the map to null, and the result encoded.
C27_Witness ==
  /\ source = "FieldValue"
  /\ Len(values) >= 3
  /\ values[1].type = "kArray"
  /\ Len(values[1].array_value) = 2
  /\ values[1].array_value[2].type = "kMap"
  /\ IsSpecialFV(values[1].array_value[2].map_value)
  /\ TryGetStringFieldValue(values[1].array_value[2].map_value, "type") = "bogus"
  /\ values[2] = VariantVector(<<VariantNull, VariantNull>>)
  /\ values[3] = FieldValueArray(<<FieldValueNull, FieldValueNull>>)

\* The entries ConvertSpecialValue reads for a map of this type.
PayloadNames(type) ==
  CASE type = "timestamp" -> {"seconds", "nanoseconds"}
    [] type = "geo_point" -> {"latitude", "longitude"}
    [] type = "document_reference" -> {"document_path"}
    [] OTHER -> {}

\* The special map m without the entries that are neither "special", "type"
\* nor payload of its type.
WithoutExtras(m) ==
  LET names == {"special", "type"} \cup PayloadNames(TryGetString(m, "type"))
      keys == {k \in DOMAIN m : is_string(k) /\ k.string_value \in names}
  IN [k \in keys |-> m[k]]

RECURSIVE ReachesMergeOnly(_)
\* A merge-only operation is in f where the decoder goes: in an array, in an
\* entry of a regular map, or in the "value" array of a nested_array map.
ReachesMergeOnly(f) ==
  CASE f.type = "kArray" ->
         \E i \in 1..Len(f.array_value) : ReachesMergeOnly(f.array_value[i])
    [] f.type = "kMap" ->
         IF IsSpecialFV(f.map_value)
           THEN /\ IsNestedArrayFV(f.map_value)
                /\ \E i \in 1..Len(ValueArray(f.map_value)) :
                     ReachesMergeOnly(ValueArray(f.map_value)[i])
           ELSE \E s \in DOMAIN f.map_value : ReachesMergeOnly(f.map_value[s])
    [] OTHER -> f.type \in FVMergeOnlyTypes

\* C28: encoding a special map returns, and returns what the encoding of the
\* map without its other entries returns, whatever those entries are (keys
\* that are no strings, values whose own encoding ends the process).
\* Decoding a FieldValue ends the process exactly when a merge-only
\* operation is reached through arrays, regular maps and the "value" array
\* of a nested_array map; one in another entry of a map with special = true
\* is not reached.
C28_ExtraEntriesNotExamined ==
  LET from == values[1]
  IN /\ (source = "Variant" /\ from.type = "kTypeMap" /\ IsSpecial(from.map)) =>
          /\ ~aborted
          /\ Len(values) >= 2 =>
               values[2] = ConvertVariantToFieldValue(VariantMap(WithoutExtras(from.map)))
     /\ source = "FieldValue" =>
          /\ (aborted /\ Len(values) = 1) => ReachesMergeOnly(from)
          /\ Len(values) >= 2 => ~ReachesMergeOnly(from)

\* A map with special = true whose entry "a" holds a merge-only operation
\* has been decoded.
C28_Witness ==
  /\ source = "FieldValue"
  /\ Len(values) >= 2
  /\ values[1].type = "kMap"
  /\ IsSpecialFV(values[1].map_value)
  /\ "a" \in DOMAIN values[1].map_value
  /\ values[1].map_value["a"] = FieldValueArrayUnion
  /\ values[2] = VariantNull

IsWrapper(f) ==
  f.type = "kMap" /\ IsSpecialFV(f.map_value) /\ IsNestedArrayFV(f.map_value)

RECURSIVE OnlyListsWrapped(_, _, _)
\* In the encoding f of v (element: as an element of a list), the
\* nested_array maps are at the places of the lists that are elements of
\* lists, and nowhere else.
OnlyListsWrapped(v, f, element) ==
  CASE v.type = "kTypeVector" ->
         /\ IsWrapper(f) <=> element
         /\ LET array == IF element THEN f.map_value["value"] ELSE f
            IN /\ array.type = "kArray"
               /\ Len(array.array_value) = Len(v.vector)
               /\ \A i \in 1..Len(v.vector) :
                    OnlyListsWrapped(v.vector[i], array.array_value[i], TRUE)
    [] v.type = "kTypeMap" ->
         /\ ~IsWrapper(f)
         /\ IF IsSpecial(v.map)
              THEN f.type \notin {"kMap", "kArray"}
              ELSE \A k \in DOMAIN v.map :
                     OnlyListsWrapped(v.map[k], f.map_value[k.string_value], FALSE)
    [] OTHER -> f.type \notin {"kMap", "kArray"}

\* C29: ConvertVariantToFieldValue on a map with special = true and type
\* "nested_array" returns the default-constructed FieldValue, whatever its
\* "value": no array and no nested_array map.  In every result of the
\* encoder a nested_array map stands for a list that is an element of a
\* list, and for nothing else.
C29_EncoderIgnoresNestedArray ==
  LET from == values[1]
  IN (source = "Variant") =>
       /\ (from.type = "kTypeMap" /\ IsSpecialOfType(from.map, "nested_array")) =>
            /\ ~aborted
            /\ Len(values) >= 2 => values[2] = FieldValueDefault
       /\ Len(values) >= 2 => OnlyListsWrapped(from, values[2], FALSE)

\* A nested_array map with a list as its "value", inside a list, has been
\* encoded to the default value.
C29_Witness ==
  /\ source = "Variant"
  /\ Len(values) >= 2
  /\ values[1].type = "kTypeVector"
  /\ Len(values[1].vector) = 1
  /\ values[1].vector[1].type = "kTypeMap"
  /\ IsSpecialOfType(values[1].vector[1].map, "nested_array")
  /\ HasKey(values[1].vector[1].map, "value")
  /\ Entry(values[1].vector[1].map, "value").type = "kTypeVector"
  /\ values[2] = FieldValueArray(<<FieldValueDefault>>)

=============================================================================
